---- MODULE Spec2Model ----
(***************************************************************************)
(* Vulnerability retrieval and risk scoring of the Threat-Intel-Agent.     *)
(*                                                                         *)
(*   SpecRisk    core/risk_scorer.py : RiskScorer                          *)
(*   SpecSearch  tools/rag_tool.py   : OSVRAGTool.search_vulnerabilities   *)
(*               utils/hybrid_search.py : HybridSearchEngine.hybrid_search *)
(*   SpecStore   data/setup_local_qdrant.py : embed_and_store_data,        *)
(*               utils/hybrid_search.py : _index_qdrant,                   *)
(*               server/mcp_server.py + tools/rag_tool.py :                *)
(*               get_vulnerability_by_id                                   *)
(*   SpecPrio    core/risk_scorer.py : prioritize_vulnerabilities,         *)
(*               get_risk_summary                                          *)
(*   SpecExtract core/risk_scorer.py : score_vulnerability                 *)
(*   SpecEmbed   tools/rag_tool.py : generate_embedding,                   *)
(*               utils/embeddings.py : embed_text                          *)
(*   SpecProvider utils/embeddings.py : get_embedding_provider             *)
(*   SpecFuse    utils/hybrid_search.py : _combine_results                 *)
(*                                                                         *)
(* Python floats are modelled as exact rationals on an integer grid; text  *)
(* is modelled as sequences of one-character strings so that upper(),      *)
(* lower(), split() and substring tests are computed, not assumed.         *)
(***************************************************************************)
EXTENDS Integers, Sequences, FiniteSets, TLC

VARIABLES
    rf,          \* RiskFactors handed to the last calculate_risk_score call
    rs,          \* RiskScore it returned (NoScore before the first call)
    prevRf,      \* RiskFactors of the call before that
    prevRs,      \* RiskScore of the call before that
    probe,       \* last direct _determine_risk_level call: [score, level]
    collection,  \* the Qdrant collection: point id -> payload (NoPoint: free)
    opensearch_client,  \* HybridSearchEngine.opensearch_client: TRUE when set
    lastSearch,  \* the last search call: its inputs, adapter calls and outcome
    ingested,    \* document id -> the content last stored under it
    lookup,      \* the last lookup by id: its inputs, scrolls and outcome
    prio,        \* the last prioritize_vulnerabilities call: inputs and result
    summary,     \* get_risk_summary of the list prio holds, once it is taken
    embedded,    \* the last embedding operation: provider, backend answer, outcome
    extracted,   \* the last scoring of one record: inputs, factors and score
    flags,       \* utils/embeddings.py at import: OPENAI_KEY and the two import flags
    _embedding_provider,  \* the module-level provider instance (NoInstance: None)
    instances,   \* number of EmbeddingProvider objects constructed so far
    threads,     \* each thread's position in get_embedding_provider
    fused        \* the last _combine_results call: both result lists and the fusion

riskVars == <<rf, rs, prevRf, prevRs, probe>>

searchVars == <<collection, opensearch_client, lastSearch>>

storeVars == <<ingested, lookup>>

prioVars == <<prio, summary>>

embedVars == <<embedded>>

extractVars == <<extracted>>

providerVars == <<flags, _embedding_provider, instances, threads>>

fuseVars == <<fused>>

vars ==
    <<rf, rs, prevRf, prevRs, probe, collection, opensearch_client, lastSearch,
      ingested, lookup, prio, summary, embedded, extracted,
      flags, _embedding_provider, instances, threads, fused>>

Min(a, b) == IF a <= b THEN a ELSE b

Max(a, b) == IF a >= b THEN a ELSE b

(***************************************************************************)
(* TEXT                                                                    *)
(*                                                                         *)
(* A Python str is a sequence of one-character strings.                    *)
(***************************************************************************)
UpperAlpha ==
    <<"A", "B", "C", "D", "E", "F", "G", "H", "I", "J", "K", "L", "M",
      "N", "O", "P", "Q", "R", "S", "T", "U", "V", "W", "X", "Y", "Z">>

LowerAlpha ==
    <<"a", "b", "c", "d", "e", "f", "g", "h", "i", "j", "k", "l", "m",
      "n", "o", "p", "q", "r", "s", "t", "u", "v", "w", "x", "y", "z">>

Digits == {"0", "1", "2", "3", "4", "5", "6", "7", "8", "9"}

Whitespace == {" ", "\n", "\t"}

Range(s) == {s[i] : i \in DOMAIN s}

LowerMap ==
    [c \in Range(UpperAlpha) |->
        LowerAlpha[CHOOSE i \in DOMAIN UpperAlpha : UpperAlpha[i] = c]]

UpperMap ==
    [c \in Range(LowerAlpha) |->
        UpperAlpha[CHOOSE i \in DOMAIN LowerAlpha : LowerAlpha[i] = c]]

LowerChar(c) == IF c \in DOMAIN LowerMap THEN LowerMap[c] ELSE c

UpperChar(c) == IF c \in DOMAIN UpperMap THEN UpperMap[c] ELSE c

\* str.lower()
Lower(s) == [i \in DOMAIN s |-> LowerChar(s[i])]

\* str.upper()
Upper(s) == [i \in DOMAIN s |-> UpperChar(s[i])]

RECURSIVE SplitFrom(_, _, _)
SplitFrom(s, i, cur) ==
    IF i > Len(s) THEN (IF cur = <<>> THEN {} ELSE {cur})
    ELSE IF s[i] \in Whitespace
         THEN (IF cur = <<>> THEN {} ELSE {cur}) \cup SplitFrom(s, i + 1, <<>>)
         ELSE SplitFrom(s, i + 1, Append(cur, s[i]))

\* set(s.split()): the maximal runs of non-whitespace characters
SplitWords(s) == SplitFrom(s, 1, <<>>)

\* w in s, for str operands
IsSubstring(w, s) ==
    \E i \in 1..(Len(s) - Len(w) + 1) : SubSeq(s, i, i + Len(w) - 1) = w

\* seq[:n]
Take(seq, n) == SubSeq(seq, 1, Min(n, Len(seq)))

RECURSIVE InsertDesc(_, _)
\* x placed after every element whose key is >= its own: with SortDescBy, the
\* stable descending sort of sorted(..., reverse=True) and list.sort(reverse=True)
InsertDesc(sorted, x) ==
    IF sorted = <<>> THEN <<x>>
    ELSE IF Head(sorted).key >= x.key
         THEN <<Head(sorted)>> \o InsertDesc(Tail(sorted), x)
         ELSE <<x>> \o sorted

RECURSIVE SortDescFrom(_, _, _)
SortDescFrom(keyed, i, acc) ==
    IF i > Len(keyed) THEN acc
    ELSE SortDescFrom(keyed, i + 1, InsertDesc(acc, keyed[i]))

SortDescBy(seq, Key(_)) ==
    LET keyed == [i \in DOMAIN seq |-> [key |-> Key(seq[i]), val |-> seq[i]]]
        sorted == SortDescFrom(keyed, 1, <<>>)
    IN  [i \in DOMAIN sorted |-> sorted[i].val]

\* score 1.0 of a similarity, bm25-normalised or fallback relevance score
Grid == 6 * 1000

(***************************************************************************)
(* The texts the model draws: ecosystem tags, queries, record contents,     *)
(* package names and record ids.                                           *)
(***************************************************************************)
eco_npm == <<"n", "p", "m">>

eco_PyPI == <<"P", "y", "P", "I">>

eco_Maven == <<"M", "a", "v", "e", "n">>

q_npm_xss == <<"n", "p", "m", " ", "X", "S", "S">>

q_lod == <<"L", "o", "d">>

q_rce == <<"r", "c", "e", " ", "e", "x", "p", "l", "o", "i", "t">>

q_dos == <<"d", "o", "s">>

content_1 == <<"x", "s", "s", " ", "i", "n", " ", "l", "o", "d", "a", "s", "h">>

content_2 == <<"s", "q", "l", " ", "i", "n", "j", "e", "c", "t", "i", "o", "n">>

content_3 == <<"X", "S", "S", " ", "i", "n", " ", "a", "d", "m", "i", "n">>

content_4 == <<"r", "c", "e">>

pkg_lodash == <<"l", "o", "d", "a", "s", "h">>

pkg_knex == <<"k", "n", "e", "x">>

pkg_Django == <<"D", "j", "a", "n", "g", "o">>

pkg_npmrc == <<"n", "p", "m", "r", "c">>

id_1 == <<"G", "H", "S", "A", "-", "2", "p", "3", "c", "-", "p", "3", "q", "w", "-", "6", "9", "r", "4">>

id_2 == <<"C", "V", "E", "-", "2", "0", "2", "4", "-", "1", "2", "3", "4">>

id_2_lower == <<"c", "v", "e", "-", "2", "0", "2", "4", "-", "1", "2", "3", "4">>

id_2_nl == <<"C", "V", "E", "-", "2", "0", "2", "4", "-", "1", "2", "3", "4", "\n">>

content_rev == <<"x", "s", "s", " ", "f", "i", "x", "e", "d">>

id_3 == <<"P", "Y", "S", "E", "C", "-", "2", "0", "2", "4", "-", "7">>

id_4 == <<"C", "V", "E", "-", "2", "0", "2", "3", "-", "0", "0", "4", "2">>

(***************************************************************************)
(* RISK SCORER                                                             *)
(*                                                                         *)
(* Grid: a normalised factor in [0,1] is an integer in 0..Unit; a weight   *)
(* is an integer number of hundredths; an overall score in [0,1] is an     *)
(* integer in 0..ScoreOne.  cvss_score is carried in tenths, epss_score in *)
(* hundredths, so x/10, x/3 and days/365 are exact on the grid.            *)
(***************************************************************************)
Unit == 100 * 3 * 73

ScoreOne == 100 * Unit

\* largest days_since_published drawn
MaxDays == 3650

\* RiskScorer.__init__: self.weights, in hundredths
W_cvss == 25

W_epss == 20

W_kev == 15

W_asset == 15

W_exposure == 10

W_exploit == 10

W_patch == 3

W_time == 2

WeightSum == W_cvss + W_epss + W_kev + W_asset + W_exposure + W_exploit + W_patch + W_time

\* RiskScorer.__init__: self.thresholds, in hundredths
T_CRITICAL == 80

T_HIGH == 60

T_MEDIUM == 40

CvssTenths == {0, 1, 50, 79, 80, 98, 100}

EpssHundredths == {0, 50, 90, 100}

Criticalities == {1, 2, 3}

DaysValues == {0, 10, 365, MaxDays}

\* dataclass RiskFactors, restricted to its documented value ranges
ValidRiskFactors ==
    [cvss_score : CvssTenths, epss_score : EpssHundredths, kev_flag : BOOLEAN,
     asset_criticality : Criticalities, internet_exposure : BOOLEAN,
     exploit_available : BOOLEAN, patch_available : BOOLEAN,
     days_since_published : DaysValues]

NoFactors == [none |-> TRUE]

NoScore == [none |-> TRUE]

_determine_risk_level_strict(score) ==
    IF score > T_CRITICAL * Unit THEN "CRITICAL"
    ELSE IF score > T_HIGH * Unit THEN "HIGH"
    ELSE IF score > T_MEDIUM * Unit THEN "MEDIUM"
    ELSE "LOW"

_determine_risk_level(score) ==
    IF score >= T_CRITICAL * Unit THEN "CRITICAL"
    ELSE IF score >= T_HIGH * Unit THEN "HIGH"
    ELSE IF score >= T_MEDIUM * Unit THEN "MEDIUM"
    ELSE "LOW"

_calculate_confidence_all(factors) == 8

_calculate_confidence(factors) ==
    \* eighths: cvss and epss count when > 0, the other six always count
    (IF factors.cvss_score > 0 THEN 1 ELSE 0)
    + (IF factors.epss_score > 0 THEN 1 ELSE 0) + 6

\* min(factors.cvss_score / 10.0, 1.0)
cvss_norm_inverted(factors) == Unit - Min(factors.cvss_score * (Unit \div 100), Unit)

cvss_norm(factors) == Min(factors.cvss_score * (Unit \div 100), Unit)

\* min(factors.epss_score, 1.0)
epss_norm(factors) == Min(factors.epss_score * (Unit \div 100), Unit)

\* min(factors.asset_criticality / 3.0, 1.0)
asset_norm(factors) == Min(factors.asset_criticality * (Unit \div 3), Unit)

\* min(factors.days_since_published / 365.0, 1.0) * 0.5
time_norm_unclamped(factors) == (factors.days_since_published * (Unit \div 365)) \div 2

\* the age factor without the halving
time_norm_full(factors) == Min(factors.days_since_published * (Unit \div 365), Unit)

time_norm(factors) == Min(factors.days_since_published * (Unit \div 365), Unit) \div 2

\* 1.0 if factors.patch_available else 0.0
patch_norm_inverted(factors) == IF factors.patch_available THEN Unit ELSE 0

\* 0.0 if factors.patch_available else 1.0
patch_norm(factors) == IF factors.patch_available THEN 0 ELSE Unit

calculate_risk_score(factors) ==
    LET cvss_score == cvss_norm(factors)
        epss_score == epss_norm(factors)
        kev_score == IF factors.kev_flag THEN Unit ELSE 0
        asset_score == asset_norm(factors)
        exposure_score == IF factors.internet_exposure THEN Unit ELSE 0
        exploit_score == IF factors.exploit_available THEN Unit ELSE 0
        patch_score == patch_norm(factors)
        time_score == time_norm(factors)
        overall_score ==
            W_cvss * cvss_score + W_epss * epss_score + W_kev * kev_score
            + W_asset * asset_score + W_exposure * exposure_score
            + W_exploit * exploit_score + W_patch * patch_score
            + W_time * time_score
    IN  [overall_score |-> overall_score,
         cvss_contribution |-> W_cvss * cvss_score,
         epss_contribution |-> W_epss * epss_score,
         kev_contribution |-> W_kev * kev_score,
         asset_contribution |-> W_asset * asset_score,
         exposure_contribution |-> W_exposure * exposure_score,
         exploit_contribution |-> W_exploit * exploit_score,
         patch_contribution |-> W_patch * patch_score,
         time_contribution |-> W_time * time_score,
         risk_level |-> _determine_risk_level(overall_score),
         confidence |-> _calculate_confidence(factors)]

\* scores handed directly to _determine_risk_level: the band edges and their
\* neighbours on the grid
ProbeScores ==
    {0, ScoreOne} \cup
    UNION {{t * Unit - 1, t * Unit, t * Unit + 1} : t \in {T_CRITICAL, T_HIGH, T_MEDIUM}}

NoProbe == [none |-> TRUE]

\* a first call of calculate_risk_score, on any valid factors
ScoreFactors ==
    /\ rf = NoFactors
    /\ \E f \in ValidRiskFactors :
        /\ rf' = f
        /\ rs' = calculate_risk_score(f)
    /\ UNCHANGED <<prevRf, prevRs, probe>>
    /\ UNCHANGED searchVars
    /\ UNCHANGED storeVars
    /\ UNCHANGED prioVars
    /\ UNCHANGED embedVars
    /\ UNCHANGED extractVars
    /\ UNCHANGED providerVars
    /\ UNCHANGED fuseVars

\* a further call with another cvss_score and every other factor as before
RescoreWithCvss ==
    /\ rf # NoFactors
    /\ prevRf = NoFactors
    /\ \E c \in CvssTenths :
        /\ rf' = [rf EXCEPT !.cvss_score = c]
        /\ rs' = calculate_risk_score(rf')
    /\ prevRf' = rf
    /\ prevRs' = rs
    /\ UNCHANGED probe
    /\ UNCHANGED searchVars
    /\ UNCHANGED storeVars
    /\ UNCHANGED prioVars
    /\ UNCHANGED embedVars
    /\ UNCHANGED extractVars
    /\ UNCHANGED providerVars
    /\ UNCHANGED fuseVars

\* a direct call of _determine_risk_level
ProbeRiskLevel ==
    /\ \E s \in ProbeScores :
        probe' = [score |-> s, level |-> _determine_risk_level(s)]
    /\ UNCHANGED <<rf, rs, prevRf, prevRs>>
    /\ UNCHANGED searchVars
    /\ UNCHANGED storeVars
    /\ UNCHANGED prioVars
    /\ UNCHANGED embedVars
    /\ UNCHANGED extractVars
    /\ UNCHANGED providerVars
    /\ UNCHANGED fuseVars

RiskNext == ScoreFactors \/ RescoreWithCvss \/ ProbeRiskLevel

(***************************************************************************)
(* RiskScorer: extraction, prioritization, summary (core/risk_scorer.py)   *)
(***************************************************************************)
\* a key the dictionary does not hold
Absent == [absent |-> TRUE]

\* an entry of vuln_data['severity']: float(score) yields `tenths`, or raises
\* ValueError when the score is not a number (a CVSS vector string)
Severity(type, parses, tenths) == [type |-> type, parses |-> parses, tenths |-> tenths]

RECURSIVE extract_cvss(_, _)
\* lines 172-180: the first CVSS_V3 or CVSS_V2 entry whose score is a number
extract_cvss(severity_data, i) ==
    IF i > Len(severity_data) THEN 0
    ELSE IF severity_data[i].type \in {"CVSS_V3", "CVSS_V2"} /\ severity_data[i].parses
         THEN severity_data[i].tenths
         ELSE extract_cvss(severity_data, i + 1)

\* an event of a range: the key of its dictionary
\* lines 206-213: some range of some package has an event with the key 'fixed'
has_fixed_event(affected_packages) ==
    \E p \in DOMAIN affected_packages :
        \E r \in DOMAIN affected_packages[p].ranges :
            \E e \in DOMAIN affected_packages[p].ranges[r].events :
                affected_packages[p].ranges[r].events[e] = "fixed"

\* what lines 204-213 were to do: no patch without a 'fixed' event
extract_patch_available_if_fixed(vuln_data) == has_fixed_event(vuln_data.affected_packages)

\* lines 204-213: True before the loop, and set to True in it
extract_patch_available(vuln_data) ==
    IF has_fixed_event(vuln_data.affected_packages) THEN TRUE ELSE TRUE

\* lines 216-223: the whole days between now and the publication date, 0 when
\* the date is missing or does not parse
extract_days_since_published(vuln_data) ==
    IF vuln_data.published.kind = "date" THEN vuln_data.published.age_days ELSE 0

extract_risk_factors_from_vulnerability(vuln_data, asset_info) ==
    [cvss_score |-> extract_cvss(vuln_data.severity, 1),
     epss_score |-> IF vuln_data.epss_data # Absent
                    THEN vuln_data.epss_data.epss_score ELSE 0,
     kev_flag |-> vuln_data.source = "CISA_KEV" \/ vuln_data.kev_data # Absent,
     asset_criticality |-> IF asset_info # Absent THEN asset_info.criticality ELSE 1,
     internet_exposure |-> IF asset_info # Absent THEN asset_info.internet_exposed
                           ELSE FALSE,
     exploit_available |-> IF vuln_data.exploit_data # Absent
                           THEN vuln_data.exploit_data.exploit_available ELSE FALSE,
     patch_available |-> extract_patch_available(vuln_data),
     days_since_published |-> extract_days_since_published(vuln_data)]

score_vulnerability(vuln_data, asset_info) ==
    calculate_risk_score(extract_risk_factors_from_vulnerability(vuln_data, asset_info))

\* lines 255-259: asset_context.get(vuln_id) when a context is given and is
\* not empty; a dictionary is kept as the list of its entries
asset_info_of(vuln, asset_context) ==
    IF /\ asset_context.given
       /\ \E k \in DOMAIN asset_context.entries : asset_context.entries[k].id = vuln.id
    THEN asset_context.entries[
             CHOOSE k \in DOMAIN asset_context.entries :
                 asset_context.entries[k].id = vuln.id].info
    ELSE Absent

scored_vulns(vulnerabilities, asset_context) ==
    [i \in DOMAIN vulnerabilities |->
        [vuln |-> vulnerabilities[i],
         risk_score |-> score_vulnerability(vulnerabilities[i],
                                            asset_info_of(vulnerabilities[i], asset_context))]]

\* lines 266-269: scored_vulns.sort(key=..., reverse=True) keeps the input
\* order of equal keys
prioritize_vulnerabilities_reversed(vulnerabilities, asset_context) ==
    SortDescBy([i \in DOMAIN vulnerabilities |->
                   scored_vulns(vulnerabilities, asset_context)[
                       Len(vulnerabilities) + 1 - i]],
               LAMBDA x : x.risk_score.overall_score)

prioritize_vulnerabilities(vulnerabilities, asset_context) ==
    SortDescBy(scored_vulns(vulnerabilities, asset_context),
               LAMBDA x : x.risk_score.overall_score)

CountLevel(scored, level) ==
    Cardinality({i \in DOMAIN scored : scored[i].risk_score.risk_level = level})

RECURSIVE SumOver(_, _, _)
\* the sum of field(scored[i].risk_score) from position i on
SumOver(scored, i, field) ==
    IF i > Len(scored) THEN 0
    ELSE (IF field = "confidence" THEN scored[i].risk_score.confidence
          ELSE scored[i].risk_score.overall_score)
         + SumOver(scored, i + 1, field)

\* sum / total_vulns when total_vulns > 0, else the 0.0 it started from; a
\* quotient is kept as its numerator and denominator
Average(sum, total_vulns) ==
    IF total_vulns > 0 THEN [num |-> sum, den |-> total_vulns]
    ELSE [num |-> 0, den |-> 1]

\* lines 275-281: the count of each level
risk_levels_miscounted(scored_vulnerabilities) ==
    [CRITICAL |-> CountLevel(scored_vulnerabilities, "CRITICAL"),
     HIGH |-> CountLevel(scored_vulnerabilities, "HIGH")
              + CountLevel(scored_vulnerabilities, "CRITICAL"),
     MEDIUM |-> CountLevel(scored_vulnerabilities, "MEDIUM"),
     LOW |-> CountLevel(scored_vulnerabilities, "LOW")]

risk_levels(scored_vulnerabilities) ==
    [CRITICAL |-> CountLevel(scored_vulnerabilities, "CRITICAL"),
     HIGH |-> CountLevel(scored_vulnerabilities, "HIGH"),
     MEDIUM |-> CountLevel(scored_vulnerabilities, "MEDIUM"),
     LOW |-> CountLevel(scored_vulnerabilities, "LOW")]

get_risk_summary(scored_vulnerabilities) ==
    [total_vulnerabilities |-> Len(scored_vulnerabilities),
     risk_distribution |-> risk_levels(scored_vulnerabilities),
     average_risk_score |-> Average(SumOver(scored_vulnerabilities, 1, "overall_score"),
                                    Len(scored_vulnerabilities)),
     average_confidence |-> Average(SumOver(scored_vulnerabilities, 1, "confidence"),
                                    Len(scored_vulnerabilities)),
     critical_count |-> risk_levels(scored_vulnerabilities).CRITICAL,
     high_count |-> risk_levels(scored_vulnerabilities).HIGH,
     medium_count |-> risk_levels(scored_vulnerabilities).MEDIUM,
     low_count |-> risk_levels(scored_vulnerabilities).LOW]

\* longest list handed to prioritize_vulnerabilities
MaxVulns == 3

Vuln(id, severity, epss_data, source, kev_data, exploit_data, affected_packages, published) ==
    [id |-> id, severity |-> severity, epss_data |-> epss_data, source |-> source,
     kev_data |-> kev_data, exploit_data |-> exploit_data,
     affected_packages |-> affected_packages, published |-> published]

\* an affected package with one range of the events given
Package(events) == [ranges |-> <<[events |-> events]>>]

Patched == <<Package(<<"introduced", "fixed">>)>>

Unpatched == <<Package(<<"introduced">>)>>

Published(age_days) == [kind |-> "date", age_days |-> age_days]

VulnA ==
    Vuln(id_1, <<Severity("CVSS_V3", TRUE, 98)>>, [epss_score |-> 90], "CISA_KEV",
         Absent, [exploit_available |-> TRUE], Patched, Published(10))

VulnB ==
    Vuln(id_2, <<Severity("CVSS_V3", TRUE, 50)>>, Absent, "OSV", Absent, Absent, Patched,
         [kind |-> "absent"])

VulnC ==
    Vuln(id_3, <<Severity("CVSS_V3", FALSE, 0), Severity("CVSS_V2", TRUE, 50)>>, Absent,
         "OSV", Absent, Absent, Unpatched, [kind |-> "invalid"])

VulnD ==
    Vuln(id_4, <<Severity("ECOSYSTEM", TRUE, 100)>>, [epss_score |-> 50], "OSV",
         [date_added |-> TRUE], [exploit_available |-> FALSE], <<>>, Published(400))

Vulns == {VulnA, VulnB, VulnC, VulnD}

VulnLists == UNION {[1..n -> Vulns] : n \in 0..MaxVulns}

AssetContexts ==
    {[given |-> FALSE, entries |-> <<>>],
     [given |-> TRUE, entries |-> <<>>],
     [given |-> TRUE,
      entries |-> <<[id |-> id_3,
                     info |-> [criticality |-> 3, internet_exposed |-> TRUE]],
                    [id |-> id_1,
                     info |-> [criticality |-> 3, internet_exposed |-> TRUE]]>>]}

NoPrio == [none |-> TRUE]

NoSummary == [none |-> TRUE]

\* one call of prioritize_vulnerabilities; the summary of the list before is
\* dropped
Prioritize ==
    /\ \E vulnerabilities \in VulnLists, asset_context \in AssetContexts :
         prio' = [vulnerabilities |-> vulnerabilities, asset_context |-> asset_context,
                  scored |-> prioritize_vulnerabilities(vulnerabilities, asset_context)]
    /\ summary' = NoSummary
    /\ UNCHANGED riskVars
    /\ UNCHANGED searchVars
    /\ UNCHANGED storeVars
    /\ UNCHANGED embedVars
    /\ UNCHANGED extractVars
    /\ UNCHANGED providerVars
    /\ UNCHANGED fuseVars

\* one call of get_risk_summary, on the list prioritize_vulnerabilities gave
Summarize ==
    /\ prio # NoPrio
    /\ summary' = [scored |-> prio.scored, result |-> get_risk_summary(prio.scored)]
    /\ UNCHANGED prio
    /\ UNCHANGED riskVars
    /\ UNCHANGED searchVars
    /\ UNCHANGED storeVars
    /\ UNCHANGED embedVars
    /\ UNCHANGED extractVars
    /\ UNCHANGED providerVars
    /\ UNCHANGED fuseVars

PrioNext == Prioritize \/ Summarize

(***************************************************************************)
(* RiskScorer.score_vulnerability on one record                            *)
(***************************************************************************)
\* longest 'severity' list of a record
MaxSeverities == 2

SeverityEntries ==
    {Severity("CVSS_V3", TRUE, 98), Severity("CVSS_V3", FALSE, 0),
     Severity("CVSS_V2", TRUE, 50), Severity("ECOSYSTEM", TRUE, 100)}

SeverityLists == UNION {[1..n -> SeverityEntries] : n \in 0..MaxSeverities}

AffectedLists == {<<>>, Unpatched, Patched, Unpatched \o Patched}

AssetInfos == {Absent, [criticality |-> 3, internet_exposed |-> TRUE]}

\* the records handed to score_vulnerability
ScoredRecords ==
    {Vuln(id_2, severity, Absent, "OSV", Absent, Absent, affected_packages, published) :
        severity \in SeverityLists, affected_packages \in AffectedLists,
        published \in {[kind |-> "absent"], Published(400)}}

\* factors handed to calculate_risk_score as they are
GivenFactors ==
    {f \in ValidRiskFactors :
        /\ f.cvss_score \in {0, 98} /\ f.epss_score = 50 /\ f.asset_criticality = 1
        /\ ~f.kev_flag /\ ~f.internet_exposure /\ ~f.exploit_available}

NoExtraction == [op |-> "none"]

\* one call of score_vulnerability
ScoreVulnerability ==
    /\ \E vuln_data \in ScoredRecords, asset_info \in AssetInfos :
         extracted' =
             [op |-> "score_vulnerability", vuln_data |-> vuln_data,
              asset_info |-> asset_info,
              factors |-> extract_risk_factors_from_vulnerability(vuln_data, asset_info),
              risk_score |-> score_vulnerability(vuln_data, asset_info)]
    /\ UNCHANGED riskVars
    /\ UNCHANGED searchVars
    /\ UNCHANGED storeVars
    /\ UNCHANGED prioVars
    /\ UNCHANGED embedVars
    /\ UNCHANGED providerVars
    /\ UNCHANGED fuseVars

\* one call of calculate_risk_score on factors of the caller's own making
CalculateRiskScore ==
    /\ \E factors \in GivenFactors :
         extracted' =
             [op |-> "calculate_risk_score", vuln_data |-> Absent, asset_info |-> Absent,
              factors |-> factors, risk_score |-> calculate_risk_score(factors)]
    /\ UNCHANGED riskVars
    /\ UNCHANGED searchVars
    /\ UNCHANGED storeVars
    /\ UNCHANGED prioVars
    /\ UNCHANGED embedVars
    /\ UNCHANGED providerVars
    /\ UNCHANGED fuseVars

ExtractNext == ScoreVulnerability \/ CalculateRiskScore

(***************************************************************************)
(* VECTOR STORE (Qdrant) AND ITS FAILURES                                  *)
(***************************************************************************)
NoPoint == [none |-> TRUE]

\* payload of a stored point: the collector's metadata plus "content"
Payload(id, aliases, content, ecosystem, names) ==
    [id |-> id, aliases |-> aliases, content |-> content, ecosystem |-> ecosystem,
     affected |-> [i \in DOMAIN names |-> [package |-> [name |-> names[i]]]]]

Record1 == Payload(id_1, <<id_2>>, content_1, eco_npm, <<pkg_lodash>>)

Record2 == Payload(id_2, <<>>, content_2, eco_npm, <<pkg_knex>>)

Record3 == Payload(id_3, <<id_4>>, content_3, eco_PyPI, <<pkg_Django>>)

Record4 == Payload(id_4, <<>>, content_4, eco_PyPI, <<pkg_npmrc>>)

Corpus == <<Record1, Record2, Record3, Record4>>

\* hash seeds a Python process can start with (PYTHONHASHSEED is not set)
NumSeeds == 2

Seeds == 0..(NumSeeds - 1)

CorpusIndex(id) == CHOOSE i \in DOMAIN Corpus : Corpus[i].id = id

\* hash(doc["id"]) & 0x7FFFFFFFFFFFFFFF: the hash of a str is salted with the
\* seed of the process, so it is a function of the id within a process only;
\* the ids of the corpus do not collide
str_hash(seed, id) == seed * Len(Corpus) + (CorpusIndex(id) - 1)

\* the point ids these hashes take
NumPoints == NumSeeds * Len(Corpus)

PointIds == 0..(NumPoints - 1)

\* a collection holding the corpus, one record per point
CorpusCollection ==
    [p \in PointIds |->
        IF \E i \in DOMAIN Corpus : str_hash(0, Corpus[i].id) = p
        THEN Corpus[CHOOSE i \in DOMAIN Corpus : str_hash(0, Corpus[i].id) = p]
        ELSE NoPoint]

Queries == <<q_npm_xss, q_lod, q_rce, q_dos>>

\* cosine similarity of a query's embedding and a record's, on the grid: the
\* embedding backend is external, its scores are a fixed table
SimilarityRow(query) ==
    CASE query = q_npm_xss -> <<5400, 3000, 4800, 1200>>
      [] query = q_lod -> <<4200, 1800, 1200, 600>>
      [] query = q_rce -> <<1200, 1800, 2400, 5400>>
      [] query = q_dos -> <<3000, 3000, 600, 300>>
      [] OTHER -> <<0, 0, 0, 0>>

Similarity(query, payload) ==
    IF \E i \in DOMAIN Corpus : Corpus[i].id = payload.id
    THEN SimilarityRow(query)[CHOOSE i \in DOMAIN Corpus : Corpus[i].id = payload.id]
    ELSE 0

RECURSIVE PointsFrom(_, _)
\* the stored points in ascending point id, as [id, payload]
PointsFrom(coll, p) ==
    IF p >= NumPoints THEN <<>>
    ELSE (IF coll[p] = NoPoint THEN <<>> ELSE <<[id |-> p, payload |-> coll[p]]>>)
         \o PointsFrom(coll, p + 1)

\* Filter(must=[FieldCondition(key="ecosystem", match=MatchAny(any=...))]);
\* the empty sequence stands for "no filter" (None)
NoFilter == <<>>

MatchesFilter(payload, filter) ==
    filter = NoFilter \/ payload.ecosystem \in Range(filter)

WithScores(points, query) ==
    [i \in DOMAIN points |->
        [id |-> points[i].id, payload |-> points[i].payload,
         score |-> Similarity(query, points[i].payload)]]

\* qdrant_client.search(query_vector, query_filter, limit, with_payload=True),
\* when it succeeds: the best `limit` matching points, best first
qdrant_search(coll, query, filter, limit) ==
    Take(SortDescBy(WithScores(SelectSeq(PointsFrom(coll, 0),
                                         LAMBDA pt : MatchesFilter(pt.payload, filter)),
                               query),
                    LAMBDA pt : pt.score),
         limit)

\* qdrant_client.scroll(limit, with_payload=True, with_vectors=False) without a
\* filter, when it succeeds: the first `limit` points
qdrant_scroll(coll, limit) == Take(PointsFrom(coll, 0), limit)

\* An adapter call either succeeds or raises; str(error).lower() is kept as the
\* set of the marker substrings it contains.
Ok == [ok |-> TRUE, markers |-> {}]

Err(markers) == [ok |-> FALSE, markers |-> markers]

ErrorMessages == {{"outputtoosmall"}, {"dimension"}, {"500"}, {"channel closed"}, {}}

Outcomes == {Ok} \cup {Err(m) : m \in ErrorMessages}

\* "<marker>" in error_str
Mentions(outcome, marker) == marker \in outcome.markers

Call(op, filter, outcome) == [op |-> op, filter |-> filter, outcome |-> outcome]

(***************************************************************************)
(* OSVRAGTool.search_vulnerabilities (tools/rag_tool.py)                   *)
(***************************************************************************)
\* largest `limit` drawn
MaxLimit == 3

\* scroll(limit=min(limit * 10, 500))
ScrollFactor == 10

ScrollCap == 500

_build_ecosystem_filter(ecosystems) ==
    IF ecosystems # <<>> THEN ecosystems ELSE NoFilter

\* package names of payload["affected"], lower-cased
package_names(payload) ==
    {Lower(payload.affected[i].package.name) : i \in DOMAIN payload.affected}

\* the relevance score of the scroll fallback
fallback_score_any_word(query_words, payload) ==
    LET content_words == SplitWords(Lower(payload.content))
        matching_words == query_words \cap content_words
        ecosystem == Lower(payload.ecosystem)
    IN  (IF matching_words # {} THEN Grid \div 2 ELSE 0)
        + (IF \E pkg_name \in package_names(payload) :
                 \E word \in query_words : IsSubstring(word, pkg_name)
           THEN 3 * (Grid \div 10) ELSE 0)
        + (IF \E word \in query_words : IsSubstring(word, ecosystem)
           THEN 2 * (Grid \div 10) ELSE 0)

fallback_score(query_words, payload) ==
    LET content_words == SplitWords(Lower(payload.content))
        matching_words == query_words \cap content_words
        ecosystem == Lower(payload.ecosystem)
    IN  (Cardinality(matching_words) * (Grid \div 2)) \div Max(Cardinality(query_words), 1)
        + (IF \E pkg_name \in package_names(payload) :
                 \E word \in query_words : IsSubstring(word, pkg_name)
           THEN 3 * (Grid \div 10) ELSE 0)
        + (IF \E word \in query_words : IsSubstring(word, ecosystem)
           THEN 2 * (Grid \div 10) ELSE 0)

RECURSIVE fallback_collect_positive(_, _, _, _, _)
\* the loop over scroll_results, keeping the points that score above 0 only
fallback_collect_positive(scroll_results, i, query_words, limit, search_results) ==
    IF i > Len(scroll_results) THEN search_results
    ELSE LET point == scroll_results[i]
             score == fallback_score(query_words, point.payload)
         IN  fallback_collect_positive(scroll_results, i + 1, query_words, limit,
                 IF score > 0
                 THEN Append(search_results,
                             [id |-> point.id, payload |-> point.payload, score |-> score])
                 ELSE search_results)

RECURSIVE fallback_collect(_, _, _, _, _)
\* the loop over scroll_results: a point is kept if it scores above 0 or fewer
\* than `limit` points were kept before it
fallback_collect(scroll_results, i, query_words, limit, search_results) ==
    IF i > Len(scroll_results) THEN search_results
    ELSE LET point == scroll_results[i]
             score == fallback_score(query_words, point.payload)
         IN  fallback_collect(scroll_results, i + 1, query_words, limit,
                 IF score > 0 \/ Len(search_results) < limit
                 THEN Append(search_results,
                             [id |-> point.id, payload |-> point.payload, score |-> score])
                 ELSE search_results)

\* what the three nested try blocks leave behind: the search results, the
\* adapter calls made, and whether an exception escaped
Stage(search_results, calls, raised) ==
    [search_results |-> search_results, calls |-> calls, raised |-> raised]

\* the calls of an outer try block, then those of its except block
AfterCall(call, stage) == [stage EXCEPT !.calls = <<call>> \o @]

\* lines 157-209: the scanned points scored, sorted and cut
score_scrolled_uncut(scroll_results, query, limit) ==
    IF scroll_results = <<>>
    THEN <<>>
    ELSE SortDescBy(fallback_collect(scroll_results, 1, SplitWords(Lower(query)),
                                     limit, <<>>),
                    LAMBDA pt : pt.score)

score_scrolled(scroll_results, query, limit) ==
    IF scroll_results = <<>>
    THEN <<>>
    ELSE Take(SortDescBy(fallback_collect(scroll_results, 1, SplitWords(Lower(query)),
                                          limit, <<>>),
                         LAMBDA pt : pt.score),
              limit)

\* lines 146-222: scroll and score by keyword overlap
scroll_fallback(coll, query, limit, env) ==
    AfterCall(Call("scroll", NoFilter, env.scroll),
              IF env.scroll.ok
              THEN Stage(score_scrolled(qdrant_scroll(coll, Min(limit * ScrollFactor, ScrollCap)),
                                        query, limit),
                         <<>>, FALSE)
              ELSE Stage(<<>>, <<>>, FALSE))

\* lines 139-225: the retry failed
on_retry_error_reraise(coll, query, limit, env) ==
    IF \/ Mentions(env.retry, "outputtoosmall")
       \/ Mentions(env.retry, "500")
       \/ Mentions(env.retry, "channel closed")
    THEN scroll_fallback(coll, query, limit, env)
    ELSE Stage(<<>>, <<>>, TRUE)

on_retry_error(coll, query, limit, env) ==
    IF \/ Mentions(env.retry, "outputtoosmall")
       \/ Mentions(env.retry, "500")
       \/ Mentions(env.retry, "channel closed")
    THEN scroll_fallback(coll, query, limit, env)
    ELSE Stage(<<>>, <<>>, FALSE)

\* lines 131-225: the search again, without the filter
retry_without_filter(coll, query, limit, env) ==
    AfterCall(Call("search", NoFilter, env.retry),
              IF env.retry.ok
              THEN Stage(qdrant_search(coll, query, NoFilter, limit), <<>>, FALSE)
              ELSE on_retry_error(coll, query, limit, env))

\* lines 127-232: the filtered search failed
on_search_error(coll, query, limit, env) ==
    IF \/ Mentions(env.search, "outputtoosmall")
       \/ Mentions(env.search, "dimension")
       \/ Mentions(env.search, "500")
    THEN retry_without_filter(coll, query, limit, env)
    ELSE Stage(<<>>, <<>>, FALSE)

\* lines 118-232: the vector search and what follows its failure
vector_search_stage(coll, query, ecosystems, limit, env) ==
    AfterCall(Call("search", _build_ecosystem_filter(ecosystems), env.search),
              IF env.search.ok
              THEN Stage(qdrant_search(coll, query, _build_ecosystem_filter(ecosystems), limit),
                         <<>>, FALSE)
              ELSE on_search_error(coll, query, limit, env))

\* lines 234-249: the result dictionaries
vulnerability_data(result) ==
    [id |-> result.payload.id, aliases |-> result.payload.aliases,
     content |-> result.payload.content, ecosystem |-> result.payload.ecosystem,
     affected_packages |-> result.payload.affected,
     similarity_score |-> result.score]

NoSearch == [api |-> "none"]

Raised(calls) == [outcome |-> "raised", calls |-> calls]

Returned(response, calls) ==
    [outcome |-> "returned", response |-> response, calls |-> calls]

\* generate_embedding: the backend answers, fails, or answers with a vector of
\* another length than 1536 (a ValueError)
EmbedOutcomes == {"ok", "error", "bad_dimension"}

\* lines 234-257: the response built from search_results (the timestamp is
\* left out)
rag_response(query, ecosystems, search_results) ==
    [query |-> query,
     extracted_entities |-> [ecosystems |-> ecosystems, query_text |-> query],
     results |-> [i \in DOMAIN search_results |-> vulnerability_data(search_results[i])],
     total_found |-> Len(search_results)]

\* lines 234-261: what the caller gets once the vector stage is over
after_vector_stage(query, ecosystems, embed, stage) ==
    IF stage.raised
    THEN Raised(<<embed>> \o stage.calls)
    ELSE Returned(rag_response(query, ecosystems, stage.search_results),
                  <<embed>> \o stage.calls)

search_vulnerabilities(coll, query, ecosystems, limit, env) ==
    IF env.embed # "ok"
    THEN Raised(<<Call("embed", NoFilter, Err({}))>>)
    ELSE after_vector_stage(query, ecosystems, Call("embed", NoFilter, Ok),
                            vector_search_stage(coll, query, ecosystems, limit, env))

(***************************************************************************)
(* HybridSearchEngine.hybrid_search (utils/hybrid_search.py)               *)
(***************************************************************************)
\* default vector_weight and bm25_weight, in tenths
DefaultVectorWeight == 7

DefaultBm25Weight == 3

\* bm25_norm = bm25_score / 10.0
Bm25Divisor == 10

WeightPairs == {<<DefaultVectorWeight, DefaultBm25Weight>>, <<DefaultBm25Weight, DefaultVectorWeight>>}

\* BM25 score of a record for a query, on the grid (7.5 is 7.5 * Grid); the
\* keyword index is external, its scores are a fixed table; 0: not a hit
Bm25Row(query) ==
    CASE query = q_npm_xss -> <<45000, 0, 18000, 0>>
      [] query = q_lod -> <<12000, 0, 0, 0>>
      [] query = q_rce -> <<0, 0, 0, 72000>>
      [] OTHER -> <<0, 0, 0, 0>>

\* opensearch_client.search(...) when it succeeds: the hits among the indexed
\* documents that pass the "terms" filter, best first, at most `size`
opensearch_search(query, ecosystems, size) ==
    LET hits == SelectSeq([i \in DOMAIN Corpus |->
                              [doc |-> Corpus[i], score |-> Bm25Row(query)[i]]],
                          LAMBDA h : h.score > 0 /\ MatchesFilter(h.doc, ecosystems))
    IN  Take(SortDescBy(hits, LAMBDA h : h.score), size)

\* a result document: the payload with the score fields set so far
Doc(payload, bm25_score, vector_score, combined_score) ==
    [id |-> payload.id, aliases |-> payload.aliases, content |-> payload.content,
     ecosystem |-> payload.ecosystem, affected |-> payload.affected,
     bm25_score |-> bm25_score, vector_score |-> vector_score,
     combined_score |-> combined_score]

Searched(docs, calls) == [docs |-> docs, calls |-> calls]

Bm25Docs(hits) == [i \in DOMAIN hits |-> Doc(hits[i].doc, hits[i].score, 0, 0)]

VectorDocs(search_results) ==
    [i \in DOMAIN search_results |->
        Doc(search_results[i].payload, 0, search_results[i].score, 0)]

\* lines 297-343: no client, no call
_bm25_search_unguarded(client, query, ecosystems, limit, env) ==
    Searched(IF env.bm25.ok
             THEN Bm25Docs(opensearch_search(query, ecosystems, limit))
             ELSE <<>>,
             <<Call("bm25", ecosystems, env.bm25)>>)

_bm25_search(client, query, ecosystems, limit, env) ==
    IF ~client THEN Searched(<<>>, <<>>)
    ELSE Searched(IF env.bm25.ok
                  THEN Bm25Docs(opensearch_search(query, ecosystems, limit))
                  ELSE <<>>,
                  <<Call("bm25", ecosystems, env.bm25)>>)

_vector_search(coll, query, ecosystems, limit, env) ==
    IF env.embed # "ok"
    THEN Searched(<<>>, <<Call("embed", NoFilter, Err({}))>>)
    ELSE Searched(IF env.search.ok
                  THEN VectorDocs(qdrant_search(coll, query,
                                                IF ecosystems # <<>> THEN ecosystems ELSE NoFilter,
                                                limit))
                  ELSE <<>>,
                  <<Call("embed", NoFilter, Ok),
                    Call("search", IF ecosystems # <<>> THEN ecosystems ELSE NoFilter,
                         env.search)>>)

\* doc_scores[doc_id] = entry: a dict keeps the position of a key's first
\* insertion and the value of its last
PutScore(doc_scores, entry) ==
    IF \E i \in DOMAIN doc_scores : doc_scores[i].doc_id = entry.doc_id
    THEN [i \in DOMAIN doc_scores |->
            IF doc_scores[i].doc_id = entry.doc_id THEN entry ELSE doc_scores[i]]
    ELSE Append(doc_scores, entry)

RECURSIVE AddBm25(_, _, _)
AddBm25(bm25_results, i, doc_scores) ==
    IF i > Len(bm25_results) THEN doc_scores
    ELSE LET doc == bm25_results[i]
         IN  AddBm25(bm25_results, i + 1,
                 IF doc.id # <<>>
                 THEN PutScore(doc_scores,
                               [doc_id |-> doc.id, doc |-> doc,
                                bm25_score |-> doc.bm25_score, vector_score |-> 0])
                 ELSE doc_scores)

RECURSIVE AddVector_appending(_, _, _)
\* lines 411-420 with every vector result entered as a new document
AddVector_appending(vector_results, i, doc_scores) ==
    IF i > Len(vector_results) THEN doc_scores
    ELSE AddVector_appending(vector_results, i + 1,
             Append(doc_scores,
                    [doc_id |-> vector_results[i].id, doc |-> vector_results[i],
                     bm25_score |-> 0, vector_score |-> vector_results[i].vector_score]))

RECURSIVE AddVector(_, _, _)
AddVector(vector_results, i, doc_scores) ==
    IF i > Len(vector_results) THEN doc_scores
    ELSE LET doc == vector_results[i]
         IN  AddVector(vector_results, i + 1,
                 IF \E k \in DOMAIN doc_scores : doc_scores[k].doc_id = doc.id
                 THEN [k \in DOMAIN doc_scores |->
                         IF doc_scores[k].doc_id = doc.id
                         THEN [doc_scores[k] EXCEPT !.vector_score = doc.vector_score]
                         ELSE doc_scores[k]]
                 ELSE Append(doc_scores,
                             [doc_id |-> doc.id, doc |-> doc,
                              bm25_score |-> 0, vector_score |-> doc.vector_score]))

\* lines 422-438: combined_score is carried in tenths of the grid, the weights
\* being tenths
ScoreDocs_undivided(doc_scores, vector_weight, bm25_weight) ==
    [i \in DOMAIN doc_scores |->
        Doc(doc_scores[i].doc, doc_scores[i].bm25_score, doc_scores[i].vector_score,
            vector_weight * doc_scores[i].vector_score
            + bm25_weight * doc_scores[i].bm25_score)]

ScoreDocs(doc_scores, vector_weight, bm25_weight) ==
    [i \in DOMAIN doc_scores |->
        Doc(doc_scores[i].doc, doc_scores[i].bm25_score, doc_scores[i].vector_score,
            vector_weight * doc_scores[i].vector_score
            + bm25_weight * (IF doc_scores[i].bm25_score > 0
                             THEN doc_scores[i].bm25_score \div Bm25Divisor ELSE 0))]

_combine_results(bm25_results, vector_results, vector_weight, bm25_weight) ==
    SortDescBy(ScoreDocs(AddVector(vector_results, 1, AddBm25(bm25_results, 1, <<>>)),
                         vector_weight, bm25_weight),
               LAMBDA d : d.combined_score)

\* lines 277-283: the ecosystem filter after fusion
post_filter(combined_results, ecosystems) ==
    IF ecosystems # <<>>
    THEN SelectSeq(combined_results, LAMBDA d : d.ecosystem \in Range(ecosystems))
    ELSE combined_results

\* lines 269-289: fusion, filter, cut, and the response (the timestamp is
\* left out)
hybrid_response(query, ecosystems, results) ==
    [query |-> query, ecosystems |-> ecosystems, results |-> results,
     total_found |-> Len(results), search_method |-> "hybrid"]

fuse(query, ecosystems, limit, vector_weight, bm25_weight, bm25, vector) ==
    Returned(hybrid_response(query, ecosystems,
                 Take(post_filter(_combine_results(bm25.docs, vector.docs,
                                                   vector_weight, bm25_weight),
                                  ecosystems),
                      limit)),
             bm25.calls \o vector.calls)

hybrid_search(client, coll, query, ecosystems, limit, vector_weight, bm25_weight, env) ==
    fuse(query, ecosystems, limit, vector_weight, bm25_weight,
         _bm25_search(client, query, ecosystems, limit * 2, env),
         _vector_search(coll, query, ecosystems, limit * 2, env))

(***************************************************************************)
(* HybridSearchEngine._combine_results on result lists of any make         *)
(***************************************************************************)
\* longest result list of one source
MaxHits == 2

\* a document the index returned without an id
RecordNoId == Payload(<<>>, <<>>, content_3, eco_PyPI, <<pkg_Django>>)

HitPayloads == {Record1, Record2, RecordNoId}

Bm25Hits == {Doc(payload, score, 0, 0) : payload \in HitPayloads, score \in {12000, 45000}}

VectorHits == {Doc(payload, 0, score, 0) : payload \in HitPayloads, score \in {3000, 5400}}

Bm25ResultLists == UNION {[1..n -> Bm25Hits] : n \in 0..MaxHits}

VectorResultLists == UNION {[1..n -> VectorHits] : n \in 0..MaxHits}

NoFusion == [op |-> "none"]

\* one call of _combine_results
CombineResults ==
    /\ fused = NoFusion
    /\ \E bm25_results \in Bm25ResultLists, vector_results \in VectorResultLists,
          w \in WeightPairs :
         fused' = [op |-> "_combine_results", bm25_results |-> bm25_results,
                   vector_results |-> vector_results, weights |-> w,
                   combined_results |->
                       _combine_results(bm25_results, vector_results, w[1], w[2])]
    /\ UNCHANGED riskVars
    /\ UNCHANGED searchVars
    /\ UNCHANGED storeVars
    /\ UNCHANGED prioVars
    /\ UNCHANGED embedVars
    /\ UNCHANGED extractVars
    /\ UNCHANGED providerVars

\* the caller has taken the list; the next call is independent of it
TakeCombined ==
    /\ fused # NoFusion
    /\ fused' = NoFusion
    /\ UNCHANGED riskVars
    /\ UNCHANGED searchVars
    /\ UNCHANGED storeVars
    /\ UNCHANGED prioVars
    /\ UNCHANGED embedVars
    /\ UNCHANGED extractVars
    /\ UNCHANGED providerVars

FuseNext == CombineResults \/ TakeCombined

(***************************************************************************)
(* EMBEDDINGS (tools/rag_tool.py generate_embedding, utils/embeddings.py)  *)
(***************************************************************************)
\* the length generate_embedding asks of a vector
OPENAI_DIM == 1536

\* the positions of a vector that are followed here; every other component is
\* a finite number
NumSampled == 2

Sampled == 1..NumSampled

\* a component: a float, or what is not one
Components == {"0.0", "0.5", "nan", "inf", "-inf", "None"}

\* not isinstance(val, (int, float)) or math.isnan(val) or math.isinf(val)
invalid_value(val) == val \in {"nan", "inf", "-inf", "None"}

\* lengths a backend answers with: text-embedding-3-small, the bge and e5
\* large models, a small model loaded under a BAAI/ or intfloat/ name
Lengths == {1536, 1024, 384}

Vector(length, at) == [length |-> length, at |-> at]

Vectors == {Vector(length, at) : length \in Lengths, at \in [Sampled -> Components]}

NoVector == [length |-> 0]

\* what the backend does with the request: it raises, or answers a vector
BackendAnswers == {[ok |-> FALSE, vector |-> NoVector]} \cup {[ok |-> TRUE, vector |-> v] : v \in Vectors}

Embedded(outcome, vector) == [outcome |-> outcome, vector |-> vector]

\* rag_tool.py lines 62-66: embedding[i] = 0.0 where the value is invalid
sanitized(embedding) ==
    Vector(embedding.length,
           [i \in Sampled |-> IF invalid_value(embedding.at[i]) THEN "0.0"
                              ELSE embedding.at[i]])

\* OSVRAGTool.generate_embedding
generate_embedding(answer) ==
    IF ~answer.ok THEN Embedded("raised", NoVector)
    ELSE IF answer.vector.length # OPENAI_DIM THEN Embedded("raised", NoVector)
    ELSE Embedded("returned", sanitized(answer.vector))

ModelNames ==
    {"openai", "bge-large-en-v1.5", "bge-m3", "e5-large-v2", "BAAI/bge-small-en-v1.5"}

\* EmbeddingProvider.get_embedding_dimension
get_embedding_dimension(model_name) ==
    IF model_name = "openai" THEN 1536
    ELSE IF model_name \in {"bge-large-en-v1.5", "BAAI/bge-large-en-v1.5"} THEN 1024
    ELSE IF model_name \in {"bge-m3", "BAAI/bge-m3"} THEN 1024
    ELSE IF model_name \in {"e5-large-v2", "intfloat/e5-large-v2"} THEN 1024
    ELSE 1024

\* _embed_openai and _embed_local: the answer of the backend as it is, or its
\* exception again
_embed(answer) ==
    IF ~answer.ok THEN Embedded("raised", NoVector)
    ELSE Embedded("returned", answer.vector)

\* EmbeddingProvider.embed_texts on one text
embed_texts(model_name, answer) == _embed(answer)

\* EmbeddingProvider.embed_text: embeddings[0]
embed_text(model_name, answer) == embed_texts(model_name, answer)

NoEmbedding == [op |-> "none"]

EmbeddingRecord(op, declared, answer, r) ==
    [op |-> op, declared |-> declared, answer |-> answer, outcome |-> r.outcome,
     vector |-> r.vector]

\* one call of OSVRAGTool.generate_embedding
GenerateEmbedding ==
    /\ \E answer \in BackendAnswers :
         embedded' = EmbeddingRecord("OSVRAGTool.generate_embedding", OPENAI_DIM, answer,
                                     generate_embedding(answer))
    /\ UNCHANGED riskVars
    /\ UNCHANGED searchVars
    /\ UNCHANGED storeVars
    /\ UNCHANGED prioVars
    /\ UNCHANGED extractVars
    /\ UNCHANGED providerVars
    /\ UNCHANGED fuseVars

\* one call of EmbeddingProvider.embed_text
EmbedText ==
    /\ \E model_name \in ModelNames, answer \in BackendAnswers :
         embedded' = EmbeddingRecord("EmbeddingProvider.embed_text",
                                     get_embedding_dimension(model_name), answer,
                                     embed_text(model_name, answer))
    /\ UNCHANGED riskVars
    /\ UNCHANGED searchVars
    /\ UNCHANGED storeVars
    /\ UNCHANGED prioVars
    /\ UNCHANGED extractVars
    /\ UNCHANGED providerVars
    /\ UNCHANGED fuseVars

EmbedNext == GenerateEmbedding \/ EmbedText

(***************************************************************************)
(* EmbeddingProvider.__init__ and get_embedding_provider                   *)
(* (utils/embeddings.py)                                                   *)
(***************************************************************************)
\* threads of the process that call get_embedding_provider
NumThreads == 2

Threads == 1..NumThreads

\* what the module finds at import: OPENAI_KEY set, sentence_transformers
\* importable, transformers and torch importable
ImportFlags ==
    [OPENAI_KEY : BOOLEAN, SENTENCE_TRANSFORMERS_AVAILABLE : BOOLEAN,
     TRANSFORMERS_AVAILABLE : BOOLEAN]

NoBackendInstalled ==
    [OPENAI_KEY |-> FALSE, SENTENCE_TRANSFORMERS_AVAILABLE |-> FALSE,
     TRANSFORMERS_AVAILABLE |-> FALSE]

\* what the world answers during one construction: the embeddings.create
\* call of _test_openai, SentenceTransformer(model_path), and
\* AutoTokenizer/AutoModel.from_pretrained(model_path)
Worlds == [openai_answers : BOOLEAN, st_loads : BOOLEAN, tf_loads : BOOLEAN]

Selected(model_name) == [outcome |-> "selected", model_name |-> model_name]

Failed(error) == [outcome |-> "raised", error |-> error]

\* lines 66-76: True when the live call answers, False on any exception
_test_openai(world) == world.openai_answers

\* lines 78-90: ImportError without the package, else the model is loaded
_initialize_sentence_transformer(model_name, imported, world) ==
    IF ~imported.SENTENCE_TRANSFORMERS_AVAILABLE THEN Failed("ImportError")
    ELSE IF ~world.st_loads THEN Failed("model load")
    ELSE Selected(model_name)

\* lines 92-103
_initialize_transformers(model_name, imported, world) ==
    IF ~imported.TRANSFORMERS_AVAILABLE THEN Failed("ImportError")
    ELSE IF ~world.tf_loads THEN Failed("model load")
    ELSE Selected(model_name)

\* lines 49-64 with every branch moving on to the next candidate when its
\* model does not load
_auto_select_model_next_on_failure(imported, world) ==
    IF imported.OPENAI_KEY /\ _test_openai(world) THEN Selected("openai")
    ELSE IF imported.SENTENCE_TRANSFORMERS_AVAILABLE /\ world.st_loads
    THEN Selected("bge-large-en-v1.5")
    ELSE IF imported.TRANSFORMERS_AVAILABLE /\ world.tf_loads
    THEN Selected("BAAI/bge-large-en-v1.5")
    ELSE Failed("RuntimeError: No embedding models available")

\* lines 49-64
_auto_select_model(imported, world) ==
    IF imported.OPENAI_KEY /\ _test_openai(world) THEN Selected("openai")
    ELSE IF imported.SENTENCE_TRANSFORMERS_AVAILABLE
    THEN _initialize_sentence_transformer("bge-large-en-v1.5", imported, world)
    ELSE IF imported.TRANSFORMERS_AVAILABLE
    THEN _initialize_transformers("BAAI/bge-large-en-v1.5", imported, world)
    ELSE Failed("RuntimeError: No embedding models available")

\* lines 105-116
_initialize_model(model_name, imported, world) ==
    IF model_name = "openai"
    THEN (IF ~imported.OPENAI_KEY THEN Failed("ValueError: OPENAI_KEY required")
          ELSE Selected("openai"))
    ELSE IF model_name \in {"bge-large-en-v1.5", "bge-m3", "e5-large-v2"}
    THEN _initialize_sentence_transformer(model_name, imported, world)
    ELSE IF model_name \in {"BAAI/bge-large-en-v1.5", "BAAI/bge-m3", "intfloat/e5-large-v2"}
    THEN _initialize_transformers(model_name, imported, world)
    ELSE Failed("ValueError: Unknown model")

\* lines 36-47: EmbeddingProvider(model_name)
EmbeddingProvider(model_name, imported, world) ==
    IF model_name = "auto" THEN _auto_select_model(imported, world)
    ELSE _initialize_model(model_name, imported, world)

\* the model names the callers pass
RequestedModels == {"auto", "bge-m3", "gpt"}

NoInstance == [object |-> 0]

\* the object a construction made: its identity and the backend it chose
Instance(object, model_name) == [object |-> object, model_name |-> model_name]

NoSelection == [outcome |-> "none"]

\* a thread outside get_embedding_provider; it keeps what its last call gave
\* until the next one gives something
Idle ==
    [pc |-> "idle", model_name |-> "auto", world |-> NoSelection,
     selection |-> NoSelection, made |-> NoInstance, result |-> NoSelection]

\* get_embedding_provider(model_name) is entered (line 197)
EnterGetEmbeddingProvider(t) ==
    /\ threads[t].pc = "idle"
    /\ \E model_name \in RequestedModels :
         threads' = [threads EXCEPT ![t] =
                        [@ EXCEPT !.pc = "test", !.model_name = model_name,
                            !.world = NoSelection, !.selection = NoSelection,
                            !.made = NoInstance]]
    /\ UNCHANGED <<flags, _embedding_provider, instances>>
    /\ UNCHANGED riskVars
    /\ UNCHANGED searchVars
    /\ UNCHANGED storeVars
    /\ UNCHANGED prioVars
    /\ UNCHANGED embedVars
    /\ UNCHANGED extractVars
    /\ UNCHANGED fuseVars

\* line 200: if _embedding_provider is None
TestIsNone(t) ==
    /\ threads[t].pc = "test"
    /\ threads' = [threads EXCEPT ![t] =
                      [@ EXCEPT !.pc = IF _embedding_provider = NoInstance
                                       THEN "construct" ELSE "return"]]
    /\ UNCHANGED <<flags, _embedding_provider, instances>>
    /\ UNCHANGED riskVars
    /\ UNCHANGED searchVars
    /\ UNCHANGED storeVars
    /\ UNCHANGED prioVars
    /\ UNCHANGED embedVars
    /\ UNCHANGED extractVars
    /\ UNCHANGED fuseVars

\* line 201, right-hand side: EmbeddingProvider(model_name, device); an
\* exception leaves get_embedding_provider
Construct(t) ==
    /\ threads[t].pc = "construct"
    /\ \E world \in Worlds :
         IF EmbeddingProvider(threads[t].model_name, flags, world).outcome = "selected"
         THEN /\ instances' = instances + 1
              /\ threads' = [threads EXCEPT ![t] =
                     [@ EXCEPT !.pc = "store", !.world = world,
                         !.selection = EmbeddingProvider(threads[t].model_name, flags, world),
                         !.made = Instance(instances + 1,
                             EmbeddingProvider(threads[t].model_name, flags, world).model_name)]]
         ELSE /\ instances' = instances
              /\ threads' = [threads EXCEPT ![t] =
                     [@ EXCEPT !.pc = "idle", !.world = world,
                         !.selection = EmbeddingProvider(threads[t].model_name, flags, world),
                         !.made = NoInstance,
                         !.result = EmbeddingProvider(threads[t].model_name, flags, world)]]
    /\ UNCHANGED <<flags, _embedding_provider>>
    /\ UNCHANGED riskVars
    /\ UNCHANGED searchVars
    /\ UNCHANGED storeVars
    /\ UNCHANGED prioVars
    /\ UNCHANGED embedVars
    /\ UNCHANGED extractVars
    /\ UNCHANGED fuseVars

\* line 201, the assignment to the global
StoreGlobal(t) ==
    /\ threads[t].pc = "store"
    /\ _embedding_provider' = threads[t].made
    /\ threads' = [threads EXCEPT ![t] = [@ EXCEPT !.pc = "return"]]
    /\ UNCHANGED <<flags, instances>>
    /\ UNCHANGED riskVars
    /\ UNCHANGED searchVars
    /\ UNCHANGED storeVars
    /\ UNCHANGED prioVars
    /\ UNCHANGED embedVars
    /\ UNCHANGED extractVars
    /\ UNCHANGED fuseVars

\* line 202: return _embedding_provider
ReturnGlobal(t) ==
    /\ threads[t].pc = "return"
    /\ threads' = [threads EXCEPT ![t] =
                      [@ EXCEPT !.pc = "idle",
                          !.result = [outcome |-> "returned",
                                      provider |-> _embedding_provider]]]
    /\ UNCHANGED <<flags, _embedding_provider, instances>>
    /\ UNCHANGED riskVars
    /\ UNCHANGED searchVars
    /\ UNCHANGED storeVars
    /\ UNCHANGED prioVars
    /\ UNCHANGED embedVars
    /\ UNCHANGED extractVars
    /\ UNCHANGED fuseVars

\* a call entered while no other thread is inside get_embedding_provider
EnterAlone(t) ==
    /\ \A other \in Threads : threads[other].pc = "idle"
    /\ EnterGetEmbeddingProvider(t)

\* calls one after another, as tasks of one event loop make them: the
\* function has no await
SequentialNext ==
    \E t \in Threads :
        \/ EnterAlone(t)
        \/ TestIsNone(t)
        \/ Construct(t)
        \/ StoreGlobal(t)
        \/ ReturnGlobal(t)

ProviderNext ==
    \E t \in Threads :
        \/ EnterGetEmbeddingProvider(t)
        \/ TestIsNone(t)
        \/ Construct(t)
        \/ StoreGlobal(t)
        \/ ReturnGlobal(t)

(***************************************************************************)
(* INGESTION (data/setup_local_qdrant.py, HybridSearchEngine) AND LOOKUP   *)
(* BY ID (tools/rag_tool.py, server/mcp_server.py)                         *)
(***************************************************************************)
\* records the ingestion runs draw their documents from: the first NumDocs of
\* the corpus
NumDocs == 2

\* longest list of documents handed to one ingestion
MaxDocs == 2

BATCH_SIZE == 50

\* a record is ingested with the content collected first or with a later one
Contents(record) == {record.content, content_rev}

\* load_vulnerability_data: a document is its id, its content and its metadata
Document(record, content) ==
    [id |-> record.id, content |-> content, metadata |-> record]

Documents ==
    UNION {{Document(Corpus[i], c) : c \in Contents(Corpus[i])} : i \in 1..NumDocs}

DocumentLists == UNION {[1..n -> Documents] : n \in 0..MaxDocs}

\* payload={**doc["metadata"], "content": doc["content"]}
payload_of(doc) == [doc.metadata EXCEPT !.content = doc.content]

\* the points of a batch, in the order of the batch
points_of(batch, seed) ==
    [i \in DOMAIN batch |->
        [id |-> str_hash(seed, batch[i].id), payload |-> payload_of(batch[i])]]

RECURSIVE upsert(_, _, _)
\* qdrant_client.upsert(points): a point replaces the point of the same id
upsert(coll, points, i) ==
    IF i > Len(points) THEN coll
    ELSE upsert([coll EXCEPT ![points[i].id] = points[i].payload], points, i + 1)

batch_num(i) == (i - 1) \div BATCH_SIZE + 1

total_batches(documents) == (Len(documents) + BATCH_SIZE - 1) \div BATCH_SIZE

RECURSIVE embed_and_store_data(_, _, _, _, _)
\* the loop over the batches, from the document at position i: a batch whose
\* embedding or upsert raises is logged and skipped
embed_and_store_data(coll, documents, i, seed, failed) ==
    IF i > Len(documents) THEN coll
    ELSE embed_and_store_data(
             IF batch_num(i) \in failed THEN coll
             ELSE upsert(coll,
                         points_of(SubSeq(documents, i,
                                          Min(i + BATCH_SIZE - 1, Len(documents))),
                                   seed),
                         1),
             documents, i + BATCH_SIZE, seed, failed)

\* collection_info.points_count
points_count(coll) == Cardinality({p \in PointIds : coll[p] # NoPoint})

\* HybridSearchEngine._index_qdrant: nothing is stored when the collection
\* holds a point already, or when the embedding or the upsert raises
_index_qdrant(coll, documents, seed, ok) ==
    IF points_count(coll) > 0 THEN coll
    ELSE IF ~ok THEN coll
    ELSE upsert(coll,
                [i \in DOMAIN documents |->
                    [id |-> str_hash(seed, documents[i].id), payload |-> documents[i]]],
                1)

\* HybridSearchEngine.index_documents (the keyword index is a fixed table)
index_documents(coll, documents, seed, ok) ==
    IF documents = <<>> THEN coll
    ELSE _index_qdrant(coll, documents, seed, ok)

DocIds == {Corpus[i].id : i \in DOMAIN Corpus}

\* no content: the contents of the corpus are not empty
NoContent == <<>>

NoneIngested == [id \in DocIds |-> NoContent]

RECURSIVE Noted(_, _, _, _)
\* the content last stored under each document id: the documents from
\* position i on, those of a failed batch left out
Noted(known, documents, i, failed) ==
    IF i > Len(documents) THEN known
    ELSE Noted(IF batch_num(i) \in failed THEN known
               ELSE [known EXCEPT ![documents[i].id] = documents[i].content],
               documents, i + 1, failed)

None == [found |-> FALSE]

NoLookup == [tool |-> "none"]

IsDigits(s) == \A i \in DOMAIN s : s[i] \in Digits

IsAlnums(s) ==
    \A i \in DOMAIN s : s[i] \in Digits \cup Range(LowerAlpha) \cup Range(UpperAlpha)

str_CVE == <<"C", "V", "E", "-">>

str_GHSA == <<"G", "H", "S", "A", "-">>

\* CVE-\d{4}-\d{4,7}, ignoring case
MatchCVE(s) ==
    /\ Len(s) \in 13..16
    /\ Upper(SubSeq(s, 1, 4)) = str_CVE
    /\ IsDigits(SubSeq(s, 5, 8))
    /\ s[9] = "-"
    /\ IsDigits(SubSeq(s, 10, Len(s)))

\* GHSA-[a-z0-9]{4}-[a-z0-9]{4}-[a-z0-9]{4}, ignoring case
MatchGHSA(s) ==
    /\ Len(s) = 19
    /\ Upper(SubSeq(s, 1, 5)) = str_GHSA
    /\ IsAlnums(SubSeq(s, 6, 9))
    /\ s[10] = "-"
    /\ IsAlnums(SubSeq(s, 11, 14))
    /\ s[15] = "-"
    /\ IsAlnums(SubSeq(s, 16, 19))

\* re.match(r'^(CVE-...|GHSA-...)$', vuln_id, re.IGNORECASE): "$" also
\* matches before a newline that ends the string
re_match(s) ==
    \/ MatchCVE(s) \/ MatchGHSA(s)
    \/ /\ Len(s) > 0
       /\ s[Len(s)] = "\n"
       /\ MatchCVE(SubSeq(s, 1, Len(s) - 1)) \/ MatchGHSA(SubSeq(s, 1, Len(s) - 1))

\* not vuln_id or not vuln_id.strip()
IsBlank(s) == \A i \in DOMAIN s : s[i] \in Whitespace

\* scroll(scroll_filter=Filter(must=[FieldCondition(key, MatchValue(value))]),
\* limit=1) when it succeeds; a keyword match is exact, and on a list field it
\* holds when one element matches
scroll_by_aliases(coll, value) ==
    Take(SelectSeq(PointsFrom(coll, 0), LAMBDA pt : value \in Range(pt.payload.aliases)), 1)

scroll_by_id_unfiltered(coll, value) == Take(PointsFrom(coll, 0), 1)

scroll_by_id(coll, value) ==
    Take(SelectSeq(PointsFrom(coll, 0), LAMBDA pt : pt.payload.id = value), 1)

\* the dictionary built from scroll_results[0]
vulnerability_of(scroll_results) ==
    [id |-> scroll_results[1].payload.id, aliases |-> scroll_results[1].payload.aliases,
     content |-> scroll_results[1].payload.content,
     ecosystem |-> scroll_results[1].payload.ecosystem,
     affected_packages |-> scroll_results[1].payload.affected]

Looked(result, calls) == [result |-> result, calls |-> calls]

found_or(scroll_results, otherwise) ==
    IF scroll_results # <<>> THEN Looked(vulnerability_of(scroll_results), <<>>)
    ELSE otherwise

AfterLookupCall(call, looked) == [looked EXCEPT !.calls = <<call>> \o @]

\* rag_tool.py lines 317-356: the scroll on the "id" field, upper-cased
lookup_by_id(coll, vuln_id, env) ==
    AfterLookupCall(Call("scroll_id", Upper(vuln_id), env.by_id),
                    IF env.by_id.ok
                    THEN found_or(scroll_by_id(coll, Upper(vuln_id)), Looked(None, <<>>))
                    ELSE Looked(None, <<>>))

\* OSVRAGTool.get_vulnerability_by_id: the scroll on "aliases", then the one
\* on "id"; an error that is re-raised ends in the outer handler, which
\* returns None
rag_get_vulnerability_by_id_both(coll, vuln_id, env) ==
    AfterLookupCall(Call("scroll_aliases", vuln_id, env.by_alias),
                    IF env.by_id.ok /\ scroll_by_id(coll, Upper(vuln_id)) # <<>>
                    THEN lookup_by_id(coll, vuln_id, env)
                    ELSE IF env.by_alias.ok
                         THEN found_or(scroll_by_aliases(coll, vuln_id),
                                       lookup_by_id(coll, vuln_id, env))
                         ELSE lookup_by_id(coll, vuln_id, env))

rag_get_vulnerability_by_id(coll, vuln_id, env) ==
    AfterLookupCall(Call("scroll_aliases", vuln_id, env.by_alias),
                    IF env.by_alias.ok
                    THEN found_or(scroll_by_aliases(coll, vuln_id),
                                  lookup_by_id(coll, vuln_id, env))
                    ELSE IF Mentions(env.by_alias, "outputtoosmall")
                            \/ Mentions(env.by_alias, "500")
                         THEN lookup_by_id(coll, vuln_id, env)
                         ELSE Looked(None, <<>>))

LookupRaised(error) ==
    [outcome |-> "raised", error |-> error, result |-> None, calls |-> <<>>]

LookupReturned(looked) ==
    [outcome |-> "returned", error |-> "", result |-> looked.result,
     calls |-> looked.calls]

\* mcp_server.get_vulnerability_by_id
get_vulnerability_by_id(coll, vuln_id, api_key_ok, env) ==
    IF ~api_key_ok THEN LookupRaised("PermissionError")
    ELSE IF IsBlank(vuln_id) THEN LookupRaised("ValueError")
    ELSE IF ~re_match(vuln_id) THEN LookupRaised("ValueError")
    ELSE LookupReturned(rag_get_vulnerability_by_id(coll, vuln_id, env))

LookupIds == {id_1, id_2, id_2_lower, id_2_nl, id_3, id_4, <<>>, <<" ">>}

LookupEnvs ==
    {env \in [by_alias : Outcomes, by_id : Outcomes] :
        (~env.by_alias.ok /\ ~Mentions(env.by_alias, "outputtoosmall")
                          /\ ~Mentions(env.by_alias, "500")) => env.by_id = Ok}

\* setup_qdrant_collection on a server without the collection: it is created
\* empty
StoreInit ==
    /\ collection = [p \in PointIds |-> NoPoint]
    /\ ingested = NoneIngested
    /\ lookup = NoLookup
    /\ opensearch_client = FALSE
    /\ lastSearch = NoSearch
    /\ rf = NoFactors
    /\ rs = NoScore
    /\ prevRf = NoFactors
    /\ prevRs = NoScore
    /\ probe = NoProbe
    /\ prio = NoPrio
    /\ summary = NoSummary
    /\ embedded = NoEmbedding
    /\ extracted = NoExtraction
    /\ flags = NoBackendInstalled
    /\ _embedding_provider = NoInstance
    /\ instances = 0
    /\ threads = [t \in Threads |-> Idle]
    /\ fused = NoFusion

\* one run of setup_local_qdrant.main: a process of its own, so a hash seed of
\* its own
IngestRun ==
    /\ lookup = NoLookup
    /\ \E seed \in Seeds, documents \in DocumentLists :
         \E failed \in SUBSET (1..total_batches(documents)) :
            /\ collection' = embed_and_store_data(collection, documents, 1, seed, failed)
            /\ ingested' = Noted(ingested, documents, 1, failed)
    /\ UNCHANGED <<lookup, opensearch_client, lastSearch>>
    /\ UNCHANGED riskVars
    /\ UNCHANGED prioVars
    /\ UNCHANGED embedVars
    /\ UNCHANGED extractVars
    /\ UNCHANGED providerVars
    /\ UNCHANGED fuseVars

\* one call of HybridSearchEngine.index_documents in a search process
IndexDocuments ==
    /\ lookup = NoLookup
    /\ \E seed \in Seeds, documents \in DocumentLists, ok \in BOOLEAN :
         /\ collection' = index_documents(collection,
                              [i \in DOMAIN documents |-> payload_of(documents[i])],
                              seed, ok)
         /\ ingested' = IF points_count(collection) = 0 /\ ok
                        THEN Noted(ingested, documents, 1, {})
                        ELSE ingested
    /\ UNCHANGED <<lookup, opensearch_client, lastSearch>>
    /\ UNCHANGED riskVars
    /\ UNCHANGED prioVars
    /\ UNCHANGED embedVars
    /\ UNCHANGED extractVars
    /\ UNCHANGED providerVars
    /\ UNCHANGED fuseVars

\* what is kept of a lookup: its inputs, the scrolls it made, its outcome
LookupRecord(tool, vuln_id, api_key_ok, r) ==
    [tool |-> tool, vuln_id |-> vuln_id,
     api_key_ok |-> api_key_ok, outcome |-> r.outcome, error |-> r.error,
     result |-> r.result, calls |-> r.calls]

\* one call of the get_vulnerability_by_id tool
GetVulnerabilityById ==
    /\ lookup = NoLookup
    /\ \E vuln_id \in LookupIds, api_key_ok \in BOOLEAN, env \in LookupEnvs :
         lookup' = LookupRecord("mcp_server.get_vulnerability_by_id", vuln_id, api_key_ok,
                       get_vulnerability_by_id(collection, vuln_id, api_key_ok, env))
    /\ UNCHANGED <<collection, ingested, opensearch_client, lastSearch>>
    /\ UNCHANGED riskVars
    /\ UNCHANGED prioVars
    /\ UNCHANGED embedVars
    /\ UNCHANGED extractVars
    /\ UNCHANGED providerVars
    /\ UNCHANGED fuseVars

\* one call of OSVRAGTool.get_vulnerability_by_id itself, as web_ui.py makes
\* it: no key is asked for
RagGetVulnerabilityById ==
    /\ lookup = NoLookup
    /\ \E vuln_id \in LookupIds, env \in LookupEnvs :
         lookup' = LookupRecord("OSVRAGTool.get_vulnerability_by_id", vuln_id, TRUE,
                       LookupReturned(rag_get_vulnerability_by_id(collection, vuln_id, env)))
    /\ UNCHANGED <<collection, ingested, opensearch_client, lastSearch>>
    /\ UNCHANGED riskVars
    /\ UNCHANGED prioVars
    /\ UNCHANGED embedVars
    /\ UNCHANGED extractVars
    /\ UNCHANGED providerVars
    /\ UNCHANGED fuseVars

\* the caller has taken the answer
TakeVulnerability ==
    /\ lookup # NoLookup
    /\ lookup' = NoLookup
    /\ UNCHANGED <<collection, ingested, opensearch_client, lastSearch>>
    /\ UNCHANGED riskVars
    /\ UNCHANGED prioVars
    /\ UNCHANGED embedVars
    /\ UNCHANGED extractVars
    /\ UNCHANGED providerVars
    /\ UNCHANGED fuseVars

StoreNext ==
    \/ IngestRun
    \/ IndexDocuments
    \/ GetVulnerabilityById
    \/ RagGetVulnerabilityById
    \/ TakeVulnerability

(***************************************************************************)
(* SEARCH: state machine                                                   *)
(***************************************************************************)
EcosystemLists == {<<>>, <<eco_npm>>, <<eco_PyPI>>, <<eco_Maven>>, <<eco_npm, eco_PyPI>>}

Limits == 1..MaxLimit

\* What the backends do during one call.  A call that sits in the except
\* block of an earlier one is never reached when the earlier one succeeds, so
\* its outcome is drawn only when the earlier one fails.
RagEnvs ==
    {env \in [embed : EmbedOutcomes, search : Outcomes, retry : Outcomes, scroll : Outcomes] :
        /\ env.embed # "ok" => env.search = Ok
        /\ env.search.ok => env.retry = Ok
        /\ env.retry.ok => env.scroll = Ok}

HybridEnvs ==
    {env \in [embed : EmbedOutcomes, search : Outcomes, bm25 : Outcomes] :
        env.embed # "ok" => env.search = Ok}

\* lines 39-78: opensearch_client is set only when the opensearch library is
\* importable, the client is built without an exception and ping() is true
_initialize_opensearch(available, connects, ping) == available /\ connects /\ ping

\* HybridSearchEngine.__init__: the keyword index is connected or, when the
\* library is missing, the connection fails or the ping fails, left None; the
\* collection holds the ingested corpus
SearchInit ==
    /\ collection = CorpusCollection
    /\ \E available, connects, ping \in BOOLEAN :
         opensearch_client = _initialize_opensearch(available, connects, ping)
    /\ lastSearch = NoSearch
    /\ ingested = Noted(NoneIngested, Corpus, 1, {})
    /\ lookup = NoLookup
    /\ rf = NoFactors
    /\ rs = NoScore
    /\ prevRf = NoFactors
    /\ prevRs = NoScore
    /\ probe = NoProbe
    /\ prio = NoPrio
    /\ summary = NoSummary
    /\ embedded = NoEmbedding
    /\ extracted = NoExtraction
    /\ flags = NoBackendInstalled
    /\ _embedding_provider = NoInstance
    /\ instances = 0
    /\ threads = [t \in Threads |-> Idle]
    /\ fused = NoFusion

\* what is kept of a call: its inputs (the weights of a hybrid search, none for
\* a rag search), the adapter calls it made, its outcome
SearchRecord(api, query, ecosystems, limit, weights, embed, r) ==
    [api |-> api, query |-> query, ecosystems |-> ecosystems, limit |-> limit,
     weights |-> weights, embed |-> embed, outcome |-> r.outcome, calls |-> r.calls,
     results |-> IF r.outcome = "returned" THEN r.response.results ELSE <<>>,
     total_found |-> IF r.outcome = "returned" THEN r.response.total_found ELSE 0]

\* one call of OSVRAGTool.search_vulnerabilities
RagSearch ==
    /\ lastSearch = NoSearch
    /\ \E q \in Range(Queries), ecosystems \in EcosystemLists, limit \in Limits,
          env \in RagEnvs :
        lastSearch' = SearchRecord("rag", q, ecosystems, limit, <<>>, env.embed,
                          search_vulnerabilities(collection, q, ecosystems, limit, env))
    /\ UNCHANGED <<collection, opensearch_client>>
    /\ UNCHANGED riskVars
    /\ UNCHANGED prioVars
    /\ UNCHANGED embedVars
    /\ UNCHANGED extractVars
    /\ UNCHANGED providerVars
    /\ UNCHANGED fuseVars
    /\ UNCHANGED storeVars

\* one call of HybridSearchEngine.hybrid_search
HybridSearch ==
    /\ lastSearch = NoSearch
    /\ \E q \in Range(Queries), ecosystems \in EcosystemLists, limit \in Limits,
          w \in WeightPairs, env \in HybridEnvs :
        lastSearch' = SearchRecord("hybrid", q, ecosystems, limit, w, env.embed,
                          hybrid_search(opensearch_client, collection, q, ecosystems,
                                        limit, w[1], w[2], env))
    /\ UNCHANGED <<collection, opensearch_client>>
    /\ UNCHANGED riskVars
    /\ UNCHANGED prioVars
    /\ UNCHANGED embedVars
    /\ UNCHANGED extractVars
    /\ UNCHANGED providerVars
    /\ UNCHANGED fuseVars
    /\ UNCHANGED storeVars

\* the caller has taken the response; the next call is independent of it
TakeResponse ==
    /\ lastSearch # NoSearch
    /\ lastSearch' = NoSearch
    /\ UNCHANGED <<collection, opensearch_client>>
    /\ UNCHANGED riskVars
    /\ UNCHANGED prioVars
    /\ UNCHANGED embedVars
    /\ UNCHANGED extractVars
    /\ UNCHANGED providerVars
    /\ UNCHANGED fuseVars
    /\ UNCHANGED storeVars

SearchNext == RagSearch \/ HybridSearch \/ TakeResponse

(***************************************************************************)
(* SPECIFICATIONS                                                          *)
(***************************************************************************)
\* the risk scorer alone: no search issued, an empty collection
RiskInit ==
    /\ rf = NoFactors
    /\ rs = NoScore
    /\ prevRf = NoFactors
    /\ prevRs = NoScore
    /\ probe = NoProbe
    /\ prio = NoPrio
    /\ summary = NoSummary
    /\ embedded = NoEmbedding
    /\ extracted = NoExtraction
    /\ flags = NoBackendInstalled
    /\ _embedding_provider = NoInstance
    /\ instances = 0
    /\ threads = [t \in Threads |-> Idle]
    /\ fused = NoFusion
    /\ collection = [p \in PointIds |-> NoPoint]
    /\ opensearch_client = FALSE
    /\ lastSearch = NoSearch
    /\ ingested = NoneIngested
    /\ lookup = NoLookup

SpecRisk == RiskInit /\ [][RiskNext]_vars

SpecSearch == SearchInit /\ [][SearchNext]_vars

SpecStore == StoreInit /\ [][StoreNext]_vars

\* the scorer before its first prioritization
PrioInit ==
    /\ prio = NoPrio
    /\ summary = NoSummary
    /\ embedded = NoEmbedding
    /\ extracted = NoExtraction
    /\ flags = NoBackendInstalled
    /\ _embedding_provider = NoInstance
    /\ instances = 0
    /\ threads = [t \in Threads |-> Idle]
    /\ fused = NoFusion
    /\ rf = NoFactors
    /\ rs = NoScore
    /\ prevRf = NoFactors
    /\ prevRs = NoScore
    /\ probe = NoProbe
    /\ collection = [p \in PointIds |-> NoPoint]
    /\ opensearch_client = FALSE
    /\ lastSearch = NoSearch
    /\ ingested = NoneIngested
    /\ lookup = NoLookup

SpecPrio == PrioInit /\ [][PrioNext]_vars

\* no embedding asked for yet
EmbedInit ==
    /\ embedded = NoEmbedding
    /\ extracted = NoExtraction
    /\ flags = NoBackendInstalled
    /\ _embedding_provider = NoInstance
    /\ instances = 0
    /\ threads = [t \in Threads |-> Idle]
    /\ fused = NoFusion
    /\ prio = NoPrio
    /\ summary = NoSummary
    /\ rf = NoFactors
    /\ rs = NoScore
    /\ prevRf = NoFactors
    /\ prevRs = NoScore
    /\ probe = NoProbe
    /\ collection = [p \in PointIds |-> NoPoint]
    /\ opensearch_client = FALSE
    /\ lastSearch = NoSearch
    /\ ingested = NoneIngested
    /\ lookup = NoLookup

SpecEmbed == EmbedInit /\ [][EmbedNext]_vars

\* no record scored yet
ExtractInit ==
    /\ extracted = NoExtraction
    /\ flags = NoBackendInstalled
    /\ _embedding_provider = NoInstance
    /\ instances = 0
    /\ threads = [t \in Threads |-> Idle]
    /\ fused = NoFusion
    /\ embedded = NoEmbedding
    /\ prio = NoPrio
    /\ summary = NoSummary
    /\ rf = NoFactors
    /\ rs = NoScore
    /\ prevRf = NoFactors
    /\ prevRs = NoScore
    /\ probe = NoProbe
    /\ collection = [p \in PointIds |-> NoPoint]
    /\ opensearch_client = FALSE
    /\ lastSearch = NoSearch
    /\ ingested = NoneIngested
    /\ lookup = NoLookup

SpecExtract == ExtractInit /\ [][ExtractNext]_vars

\* the module imported in some environment, no provider made yet
ProviderInit ==
    /\ flags \in ImportFlags
    /\ _embedding_provider = NoInstance
    /\ instances = 0
    /\ threads = [t \in Threads |-> Idle]
    /\ fused = NoFusion
    /\ extracted = NoExtraction
    /\ embedded = NoEmbedding
    /\ prio = NoPrio
    /\ summary = NoSummary
    /\ rf = NoFactors
    /\ rs = NoScore
    /\ prevRf = NoFactors
    /\ prevRs = NoScore
    /\ probe = NoProbe
    /\ collection = [p \in PointIds |-> NoPoint]
    /\ opensearch_client = FALSE
    /\ lastSearch = NoSearch
    /\ ingested = NoneIngested
    /\ lookup = NoLookup

SpecProvider == ProviderInit /\ [][ProviderNext]_vars

SpecProviderSequential == ProviderInit /\ [][SequentialNext]_vars

\* no result list combined yet
FuseInit ==
    /\ fused = NoFusion
    /\ flags = NoBackendInstalled
    /\ _embedding_provider = NoInstance
    /\ instances = 0
    /\ threads = [t \in Threads |-> Idle]
    /\ extracted = NoExtraction
    /\ embedded = NoEmbedding
    /\ prio = NoPrio
    /\ summary = NoSummary
    /\ rf = NoFactors
    /\ rs = NoScore
    /\ prevRf = NoFactors
    /\ prevRs = NoScore
    /\ probe = NoProbe
    /\ collection = [p \in PointIds |-> NoPoint]
    /\ opensearch_client = FALSE
    /\ lastSearch = NoSearch
    /\ ingested = NoneIngested
    /\ lookup = NoLookup

SpecFuse == FuseInit /\ [][FuseNext]_vars

(***************************************************************************)
(* CLAIMS ABOUT THE RISK SCORER                                            *)
(***************************************************************************)

\* C8: for all valid RiskFactors, with the fixed weights summing to 1.0,
\* calculate_risk_score returns an overall score in [0,1].
C8_OverallScoreInUnitInterval ==
    /\ WeightSum = 100
    /\ rs # NoScore => (0 <= rs.overall_score /\ rs.overall_score <= ScoreOne)

\* the largest score the valid factors produce: every factor at its ceiling
C8_Witness ==
    /\ rs # NoScore
    /\ rf.cvss_score = 100 /\ rf.epss_score = 100 /\ rf.kev_flag
    /\ rf.asset_criticality = 3 /\ rf.internet_exposure /\ rf.exploit_available
    /\ ~rf.patch_available /\ rf.days_since_published > 365
    /\ rs.overall_score = 99 * Unit

LevelOf(score) ==
    CASE score >= 80 * Unit -> "CRITICAL"
      [] score >= 60 * Unit /\ score < 80 * Unit -> "HIGH"
      [] score >= 40 * Unit /\ score < 60 * Unit -> "MEDIUM"
      [] score < 40 * Unit -> "LOW"

\* C9: the risk level is a function of the overall score with inclusive lower
\* bounds: CRITICAL iff score >= 0.8, HIGH iff 0.6 <= score < 0.8, MEDIUM iff
\* 0.4 <= score < 0.6, LOW iff score < 0.4; exactly 0.8 is CRITICAL and a score
\* just below 0.8 is HIGH.
C9_RiskLevelBands ==
    /\ probe # NoProbe => probe.level = LevelOf(probe.score)
    /\ rs # NoScore => rs.risk_level = LevelOf(rs.overall_score)
    /\ prevRs # NoScore => prevRs.risk_level = LevelOf(prevRs.overall_score)

\* a factor set scoring exactly 0.8 is CRITICAL, and the grid's next score
\* below 0.8 is HIGH
C9_Witness ==
    /\ rs # NoScore /\ rs.overall_score = 80 * Unit /\ rs.risk_level = "CRITICAL"
    /\ probe # NoProbe /\ probe.score = 80 * Unit - 1 /\ probe.level = "HIGH"

LevelRank(level) ==
    CASE level = "LOW" -> 0
      [] level = "MEDIUM" -> 1
      [] level = "HIGH" -> 2
      [] level = "CRITICAL" -> 3

\* C10: holding every other risk factor fixed, increasing cvssScore never
\* decreases the overall score of calculate_risk_score, and so never lowers
\* the risk level.
C10_MonotoneInCvss ==
    (/\ prevRf # NoFactors
     /\ [prevRf EXCEPT !.cvss_score = rf.cvss_score] = rf
     /\ prevRf.cvss_score <= rf.cvss_score)
    => /\ prevRs.overall_score <= rs.overall_score
       /\ LevelRank(prevRs.risk_level) <= LevelRank(rs.risk_level)

\* cvss raised from 5.0 to 10.0 with the rest fixed: the score grows and the
\* level goes up
C10_Witness ==
    /\ prevRf # NoFactors
    /\ [prevRf EXCEPT !.cvss_score = rf.cvss_score] = rf
    /\ prevRf.cvss_score = 50 /\ rf.cvss_score = 100
    /\ prevRs.overall_score < rs.overall_score
    /\ prevRs.risk_level = "HIGH" /\ rs.risk_level = "CRITICAL"

(***************************************************************************)
(* CLAIMS ABOUT SEARCH                                                     *)
(***************************************************************************)
SearchDone == lastSearch # NoSearch

CallsOf(op) == SelectSeq(lastSearch.calls, LAMBDA c : c.op = op)

\* an error of the class that line 127 of rag_tool.py sends to the retry
Transient(outcome) ==
    /\ ~outcome.ok
    /\ Mentions(outcome, "outputtoosmall") \/ Mentions(outcome, "dimension")
       \/ Mentions(outcome, "500")

\* a call to the vector index (search or scroll) failed during the search
VectorIndexFailed ==
    \E i \in DOMAIN lastSearch.calls :
        /\ lastSearch.calls[i].op \in {"search", "scroll"}
        /\ ~lastSearch.calls[i].outcome.ok

\* C1: for every search with a non-empty list of requested ecosystems, every
\* returned record's ecosystem is one of the requested ecosystems, on every
\* path: filtered search, retry without the filter, scan fallback.
C1_EcosystemFilterHonored ==
    (SearchDone /\ lastSearch.ecosystems # <<>>)
    => \A i \in DOMAIN lastSearch.results :
           lastSearch.results[i].ecosystem \in Range(lastSearch.ecosystems)

\* C2: when the filtered vector search fails with a transient-class error the
\* search is retried exactly once without the filter; the scan is attempted
\* only after that retry has failed too; an empty result set is returned only
\* after the scan has failed or returned no documents; no later stage is
\* attempted when an earlier stage succeeds.
C2_DegradationOrder ==
    (SearchDone /\ CallsOf("search") # <<>>)
    => /\ Transient(CallsOf("search")[1].outcome)
            => /\ Len(CallsOf("search")) = 2
               /\ CallsOf("search")[2].filter = NoFilter
       /\ CallsOf("scroll") # <<>>
            => /\ Len(CallsOf("search")) = 2
               /\ ~CallsOf("search")[2].outcome.ok
               /\ Len(CallsOf("scroll")) = 1
       /\ (/\ Len(CallsOf("search")) = 2
           /\ Transient(CallsOf("search")[1].outcome)
           /\ Transient(CallsOf("search")[2].outcome)
           /\ lastSearch.results = <<>>)
            => Len(CallsOf("scroll")) = 1
       /\ CallsOf("search")[1].outcome.ok
            => Len(CallsOf("search")) = 1 /\ CallsOf("scroll") = <<>>
       /\ (Len(CallsOf("search")) = 2 /\ CallsOf("search")[2].outcome.ok)
            => CallsOf("scroll") = <<>>

\* C3: given that the query embedding succeeds, no failure of the vector index
\* (filtered search, unfiltered retry, scan) or of the keyword index reaches
\* the caller as an error: the caller receives a result set, possibly empty.
C3_AdapterFailuresAbsorbed ==
    (SearchDone /\ lastSearch.embed = "ok") => lastSearch.outcome = "returned"

\* the filtered search, the retry (with an error outside the scan's class) and
\* so every stage reached has failed, and the caller holds an empty result set
C3_Witness ==
    /\ SearchDone
    /\ lastSearch.api = "rag"
    /\ lastSearch.embed = "ok"
    /\ Len(CallsOf("search")) = 2
    /\ Transient(CallsOf("search")[1].outcome)
    /\ CallsOf("search")[2].outcome = Err({})
    /\ lastSearch.outcome = "returned"
    /\ lastSearch.results = <<>>

\* C4: a failure to embed the query is fatal for the whole search: the search
\* raises to its caller, performs no retry, and returns no partial result set
\* (no keyword-only results).
C4_EmbeddingFailureFatal ==
    (SearchDone /\ lastSearch.embed # "ok")
    => /\ lastSearch.outcome = "raised"
       /\ CallsOf("embed") = <<Call("embed", NoFilter, Err({}))>>
       /\ lastSearch.results = <<>>

\* C5: a caller can tell apart no matches (empty results, total 0, no error),
\* a search that ran in degraded mode, and a search that could not run; a
\* vector-index failure is never reported as an ordinary empty, non-degraded
\* result.  The responses carry no field for a degraded run, so an empty
\* response with total 0 is the report of "no matches".
C5_FailureNotReportedAsNoMatches ==
    (SearchDone /\ VectorIndexFailed)
    => ~(/\ lastSearch.outcome = "returned"
         /\ lastSearch.results = <<>>
         /\ lastSearch.total_found = 0)

(***************************************************************************)
(* CLAIMS ABOUT INGESTION AND LOOKUP                                       *)
(***************************************************************************)
PointsUnder(id) ==
    {p \in PointIds : collection[p] # NoPoint /\ collection[p].id = id}

\* C6: looking a stored record up by its own ingested id, the id passing the
\* format check, returns a record whose id or aliases contain the queried id,
\* for CVE ids and for GHSA ids, whatever the letter case stored at ingest.
C6_LookupByIngestedId ==
    (/\ lookup # NoLookup
     /\ lookup.api_key_ok
     /\ re_match(lookup.vuln_id)
     /\ PointsUnder(lookup.vuln_id) # {}
     /\ \A i \in DOMAIN lookup.calls : lookup.calls[i].outcome.ok)
    => /\ lookup.outcome = "returned"
       /\ lookup.result # None
       /\ \/ lookup.result.id = lookup.vuln_id
          \/ lookup.vuln_id \in Range(lookup.result.aliases)

\* C7: ingesting the same record id twice with different content, in the same
\* or in a later ingestion run, leaves exactly one record under that id in the
\* vector index, carrying the content of the latest ingestion.
C7_IdempotentUpsert ==
    \A id \in DocIds :
        ingested[id] # NoContent
        => /\ Cardinality(PointsUnder(id)) = 1
           /\ \A p \in PointsUnder(id) : collection[p].content = ingested[id]

(***************************************************************************)
(* CLAIMS ABOUT CONFIDENCE, PRIORITIZATION AND THE SUMMARY                 *)
(***************************************************************************)
\* the factors of a factor set that carry observed data: cvss and epss unless
\* they are 0, the other six always
ObservedFactors(factors) ==
    {"kev", "asset", "exposure", "exploit", "patch", "time"}
    \cup (IF factors.cvss_score = 0 THEN {} ELSE {"cvss"})
    \cup (IF factors.epss_score = 0 THEN {} ELSE {"epss"})

\* cvss 9.8, epss 0.9, kev, criticality 3, exposed, exploit available, no
\* patch, 10 days
AllObservedScenario ==
    [cvss_score |-> 98, epss_score |-> 90, kev_flag |-> TRUE,
     asset_criticality |-> 3, internet_exposure |-> TRUE,
     exploit_available |-> TRUE, patch_available |-> FALSE,
     days_since_published |-> 10]

\* C11: confidence is the fraction of the eight factors that carried observed
\* data, cvss and epss being unobserved exactly when they are 0; it lies in
\* [0,1]; the factor set with all eight observed (cvss 9.8, epss 0.9, kev,
\* criticality 3, exposed, exploit, no patch, 10 days) has confidence 1.0 and
\* level CRITICAL.  Confidence is carried in eighths.
C11_ConfidenceIsObservedFraction ==
    rs # NoScore
    => /\ rs.confidence = Cardinality(ObservedFactors(rf))
       /\ 0 <= rs.confidence /\ rs.confidence <= 8
       /\ rf = AllObservedScenario
            => rs.confidence = 8 /\ rs.risk_level = "CRITICAL"

\* the scenario of the eight observed factors has been scored
C11_Witness ==
    /\ rf = AllObservedScenario
    /\ rs # NoScore
    /\ rs.confidence = 8
    /\ rs.risk_level = "CRITICAL"

\* a factor set without cvss and epss data has been scored: six of eight
C11_WitnessUnobserved ==
    /\ rs # NoScore
    /\ rf.cvss_score = 0 /\ rf.epss_score = 0
    /\ rs.confidence = 6


\* the overall scores of a prioritized list, in order
ScoresOf(scored) == [k \in DOMAIN scored |-> scored[k].risk_score.overall_score]

\* pi places the scored input list in the order of the result, keeping equal
\* scores in their input order
StablePlacement(pi, input, result) ==
    /\ \A k \in DOMAIN result : result[k] = input[pi[k]]
    /\ \A k, l \in DOMAIN result :
         k < l /\ result[k].risk_score.overall_score = result[l].risk_score.overall_score
         => pi[k] < pi[l]

\* C12: prioritize_vulnerabilities returns every scored vulnerability once,
\* ordered by overall score descending, and vulnerabilities with equal overall
\* score keep their relative input order.
C12_SortedDescendingStable ==
    prio # NoPrio
    => /\ Len(prio.scored) = Len(prio.vulnerabilities)
       /\ \A k \in 1..(Len(prio.scored) - 1) :
            ScoresOf(prio.scored)[k] >= ScoresOf(prio.scored)[k + 1]
       /\ \E pi \in Permutations(DOMAIN prio.scored) :
            StablePlacement(pi, scored_vulns(prio.vulnerabilities, prio.asset_context),
                            prio.scored)

C12_Witness ==
    /\ prio # NoPrio
    /\ prio.vulnerabilities = <<VulnB, VulnC, VulnA>>
    /\ ~prio.asset_context.given
    /\ ScoresOf(prio.scored)[2] = ScoresOf(prio.scored)[3]
    /\ [k \in 1..3 |-> prio.scored[k].vuln.id] = <<id_1, id_2, id_3>>

\* the asset context lifts the later of two otherwise tied vulnerabilities
C12_WitnessAssetContext ==
    /\ prio # NoPrio
    /\ prio.vulnerabilities = <<VulnB, VulnC>>
    /\ prio.asset_context.given
    /\ [k \in 1..2 |-> prio.scored[k].vuln.id] = <<id_3, id_2>>

\* C13: get_risk_summary reports a total equal to the length of the list and
\* per-level counts that sum to the total; for the empty list the total, every
\* count and both averages are 0 and nothing is raised.
C13_SummaryCounts ==
    summary # NoSummary
    => /\ summary.result.total_vulnerabilities = Len(summary.scored)
       /\ summary.result.critical_count + summary.result.high_count
          + summary.result.medium_count + summary.result.low_count
          = summary.result.total_vulnerabilities
       /\ summary.result.risk_distribution =
            [CRITICAL |-> summary.result.critical_count,
             HIGH |-> summary.result.high_count,
             MEDIUM |-> summary.result.medium_count,
             LOW |-> summary.result.low_count]
       /\ summary.scored = <<>>
          => /\ summary.result.total_vulnerabilities = 0
             /\ summary.result.critical_count = 0
             /\ summary.result.high_count = 0
             /\ summary.result.medium_count = 0
             /\ summary.result.low_count = 0
             /\ summary.result.average_risk_score.num = 0
             /\ summary.result.average_confidence.num = 0

C13_Witness ==
    /\ summary # NoSummary
    /\ summary.result.total_vulnerabilities = 3
    /\ summary.result.critical_count = 1
    /\ summary.result.low_count = 2
    /\ summary.result.average_risk_score.den = 3

C13_WitnessEmpty ==
    /\ summary # NoSummary
    /\ summary.scored = <<>>
    /\ summary.result.total_vulnerabilities = 0
    /\ summary.result.average_risk_score = [num |-> 0, den |-> 1]


\* the characters of the identifiers, in code point order
CodeOrder ==
    <<"-", "0", "1", "2", "3", "4", "5", "6", "7", "8", "9">> \o UpperAlpha \o LowerAlpha

CodePoint(c) == CHOOSE k \in DOMAIN CodeOrder : CodeOrder[k] = c

\* a < b for two str values: at the first position where they differ a has
\* the smaller character, or a is a proper prefix of b
str_less(a, b) ==
    \/ \E k \in 1..Min(Len(a), Len(b)) :
         /\ \A j \in 1..(k - 1) : a[j] = b[j]
         /\ CodePoint(a[k]) < CodePoint(b[k])
    \/ /\ Len(a) < Len(b)
       /\ \A j \in 1..Len(a) : a[j] = b[j]

HybridDone == SearchDone /\ lastSearch.api = "hybrid" /\ lastSearch.outcome = "returned"

\* C14: the fused result list is ordered by combined score descending, and
\* documents of equal combined score are ordered by id ascending.
C14_FusedOrderTieById ==
    HybridDone
    => \A k \in 1..(Len(lastSearch.results) - 1) :
         \/ lastSearch.results[k].combined_score > lastSearch.results[k + 1].combined_score
         \/ /\ lastSearch.results[k].combined_score
               = lastSearch.results[k + 1].combined_score
            /\ str_less(lastSearch.results[k].id, lastSearch.results[k + 1].id)

\* the descending order alone holds
C14_FusedOrderDescending ==
    HybridDone
    => \A k \in 1..(Len(lastSearch.results) - 1) :
         lastSearch.results[k].combined_score >= lastSearch.results[k + 1].combined_score

\* two documents of equal combined score returned with the greater id first
C14_TieOutOfIdOrder ==
    /\ HybridDone
    /\ \E k \in 1..(Len(lastSearch.results) - 1) :
         /\ lastSearch.results[k].combined_score
            = lastSearch.results[k + 1].combined_score
         /\ str_less(lastSearch.results[k + 1].id, lastSearch.results[k].id)


\* C15: on every path (normal, retry without filter, scan fallback, all stages
\* failed) a search that returns has at most `limit` results, and its
\* total_found is the number of results returned.
C15_AtMostLimitAndTotalFound ==
    (SearchDone /\ lastSearch.outcome = "returned")
    => /\ Len(lastSearch.results) <= lastSearch.limit
       /\ lastSearch.total_found = Len(lastSearch.results)

\* the scan fallback answered with more scored points than the limit admits
C15_Witness ==
    /\ SearchDone
    /\ lastSearch.api = "rag"
    /\ lastSearch.outcome = "returned"
    /\ CallsOf("scroll") # <<>>
    /\ CallsOf("scroll")[1].outcome.ok
    /\ lastSearch.limit = 1
    /\ Len(fallback_collect(qdrant_scroll(collection, ScrollFactor), 1,
                            SplitWords(Lower(lastSearch.query)), 1, <<>>)) > 1
    /\ Len(lastSearch.results) = 1
    /\ lastSearch.total_found = 1

\* every stage failed: nothing is returned and nothing is counted
C15_WitnessAllFailed ==
    /\ SearchDone
    /\ lastSearch.api = "rag"
    /\ lastSearch.outcome = "returned"
    /\ CallsOf("scroll") # <<>>
    /\ ~CallsOf("scroll")[1].outcome.ok
    /\ lastSearch.results = <<>>
    /\ lastSearch.total_found = 0

\* the fused list is longer than the limit before the cut
C15_WitnessHybrid ==
    /\ HybridDone
    /\ lastSearch.limit = 1
    /\ Len(lastSearch.results) = 1
    /\ Len(CallsOf("bm25")) = 1
    /\ lastSearch.total_found = 1


\* the vector results of the last search, as the vector store gave them: none
\* when the embedding or the search failed
VectorResultsOfLast ==
    IF lastSearch.embed = "ok" /\ CallsOf("search") # <<>> /\ CallsOf("search")[1].outcome.ok
    THEN qdrant_search(collection, lastSearch.query,
                       IF lastSearch.ecosystems # <<>> THEN lastSearch.ecosystems
                       ELSE NoFilter,
                       lastSearch.limit * 2)
    ELSE <<>>

\* C16: when the keyword index is unavailable at construction time, every
\* later hybrid search completes without error, never calls the keyword index,
\* and returns the vector results, with bm25_score 0, ranked by
\* vector_weight * vector_score.
C16_VectorOnlyWhenKeywordIndexUnavailable ==
    (SearchDone /\ lastSearch.api = "hybrid" /\ ~opensearch_client)
    => /\ lastSearch.outcome = "returned"
       /\ CallsOf("bm25") = <<>>
       /\ Len(lastSearch.results) = Min(lastSearch.limit, Len(VectorResultsOfLast))
       /\ \A k \in DOMAIN lastSearch.results :
            /\ lastSearch.results[k].id = VectorResultsOfLast[k].payload.id
            /\ lastSearch.results[k].vector_score = VectorResultsOfLast[k].score
            /\ lastSearch.results[k].bm25_score = 0
            /\ lastSearch.results[k].combined_score
               = lastSearch.weights[1] * lastSearch.results[k].vector_score
       /\ \A k \in 1..(Len(lastSearch.results) - 1) :
            lastSearch.weights[1] * lastSearch.results[k].vector_score
            >= lastSearch.weights[1] * lastSearch.results[k + 1].vector_score

\* a query the keyword index would have had hits for, answered without it
C16_Witness ==
    /\ HybridDone
    /\ ~opensearch_client
    /\ lastSearch.query = q_npm_xss
    /\ opensearch_search(lastSearch.query, lastSearch.ecosystems, lastSearch.limit * 2) # <<>>
    /\ CallsOf("bm25") = <<>>
    /\ Len(lastSearch.results) = 2
    /\ lastSearch.results[1].vector_score > lastSearch.results[2].vector_score
    /\ lastSearch.results[1].bm25_score = 0


\* the keyword results of the last search, as the keyword index gave them:
\* none when it was not asked or failed
KeywordResultsOfLast ==
    IF CallsOf("bm25") # <<>> /\ CallsOf("bm25")[1].outcome.ok
    THEN opensearch_search(lastSearch.query, lastSearch.ecosystems, lastSearch.limit * 2)
    ELSE <<>>

\* the score a source gave the document, 0 when the document is not in it
VectorScoreOf(id) ==
    IF \E k \in DOMAIN VectorResultsOfLast : VectorResultsOfLast[k].payload.id = id
    THEN VectorResultsOfLast[CHOOSE k \in DOMAIN VectorResultsOfLast :
                                 VectorResultsOfLast[k].payload.id = id].score
    ELSE 0

KeywordScoreOf(id) ==
    IF \E k \in DOMAIN KeywordResultsOfLast : KeywordResultsOfLast[k].doc.id = id
    THEN KeywordResultsOfLast[CHOOSE k \in DOMAIN KeywordResultsOfLast :
                                  KeywordResultsOfLast[k].doc.id = id].score
    ELSE 0

SourceIds ==
    {VectorResultsOfLast[k].payload.id : k \in DOMAIN VectorResultsOfLast}
    \cup {KeywordResultsOfLast[k].doc.id : k \in DOMAIN KeywordResultsOfLast}

C20_WitnessKeywordOnly ==
    /\ HybridDone
    /\ VectorResultsOfLast = <<>>
    /\ lastSearch.results # <<>>
    /\ lastSearch.results[1].vector_score = 0
    /\ lastSearch.results[1].bm25_score > 0
    /\ Bm25Divisor * lastSearch.results[1].combined_score
       = lastSearch.weights[2] * lastSearch.results[1].bm25_score

(***************************************************************************)
(* CLAIMS ABOUT THE LOOKUP BY ID                                           *)
(***************************************************************************)
\* the identifier grammar: CVE-YYYY-DIGITS or GHSA-xxxx-xxxx-xxxx, in either
\* letter case, and nothing else in the string
WellFormed(s) == MatchCVE(s) \/ MatchGHSA(s)

\* a stored record carries the identifier as its id or among its aliases, in
\* whatever letter case
StoredUnder(vuln_id) ==
    {p \in PointIds :
        /\ collection[p] # NoPoint
        /\ \/ Upper(collection[p].id) = Upper(vuln_id)
           \/ \E k \in DOMAIN collection[p].aliases :
                Upper(collection[p].aliases[k]) = Upper(vuln_id)}

LookupDone == lookup # NoLookup /\ lookup.api_key_ok

\* C17: looking up a syntactically valid identifier that matches no record's
\* aliases and no record's id returns None and raises no exception.
C17_ValidIdWithoutRecordIsNone ==
    (LookupDone /\ WellFormed(lookup.vuln_id) /\ StoredUnder(lookup.vuln_id) = {})
    => /\ lookup.outcome = "returned"
       /\ lookup.result = None

\* both scrolls ran on a collection that holds records, and found nothing
C17_Witness ==
    /\ LookupDone
    /\ lookup.vuln_id = id_4
    /\ \E p \in PointIds : collection[p] # NoPoint
    /\ Len(lookup.calls) = 2
    /\ \A k \in DOMAIN lookup.calls : lookup.calls[k].outcome.ok
    /\ lookup.outcome = "returned"
    /\ lookup.result = None

\* C18: an identifier that does not match the identifier grammar is rejected
\* with an invalid-format error before any index lookup is issued, on every
\* entry point of the lookup.
C18_MalformedIdRejectedBeforeLookup ==
    (LookupDone /\ ~WellFormed(lookup.vuln_id))
    => /\ lookup.outcome = "raised"
       /\ lookup.error = "ValueError"
       /\ lookup.calls = <<>>

\* the tool of mcp_server.py rejects an identifier its pattern does not match
C18_McpRejectsUnmatched ==
    (/\ LookupDone
     /\ lookup.tool = "mcp_server.get_vulnerability_by_id"
     /\ ~re_match(lookup.vuln_id))
    => /\ lookup.outcome = "raised"
       /\ lookup.error = "ValueError"
       /\ lookup.calls = <<>>

\* a malformed identifier reached the vector store through OSVRAGTool
C18_MalformedLookedUpDirectly ==
    /\ LookupDone
    /\ lookup.tool = "OSVRAGTool.get_vulnerability_by_id"
    /\ lookup.vuln_id = id_3
    /\ lookup.outcome = "returned"
    /\ Len(lookup.calls) = 2

\* an identifier with a trailing newline passed the pattern of the tool
C18_NewlinePassesPattern ==
    /\ LookupDone
    /\ lookup.tool = "mcp_server.get_vulnerability_by_id"
    /\ lookup.vuln_id = id_2_nl
    /\ lookup.outcome = "returned"
    /\ lookup.calls # <<>>


\* the lookup got as far as the vector store
LookupIssued == LookupDone /\ lookup.outcome = "returned" /\ lookup.calls # <<>>

\* what the scroll on the aliases found, nothing when it failed
AliasMatchOfLast ==
    IF lookup.calls[1].outcome.ok THEN scroll_by_aliases(collection, lookup.vuln_id)
    ELSE <<>>

\* C23: the lookup first tries an exact match of the identifier as given
\* against the aliases; only when that finds nothing does it try an exact
\* match of the upper-cased identifier against the id; the first match found
\* is returned, and the id lookup is not issued when the alias lookup matched.
C23_AliasesThenId ==
    LookupIssued
    => /\ lookup.calls[1].op = "scroll_aliases"
       /\ lookup.calls[1].filter = lookup.vuln_id
       /\ Len(lookup.calls) <= 2
       /\ Len(lookup.calls) = 2
          => /\ lookup.calls[2].op = "scroll_id"
             /\ lookup.calls[2].filter = Upper(lookup.vuln_id)
             /\ AliasMatchOfLast = <<>>
       /\ AliasMatchOfLast # <<>>
          => /\ Len(lookup.calls) = 1
             /\ lookup.result # None
             /\ lookup.result.id = AliasMatchOfLast[1].payload.id
             /\ lookup.vuln_id \in Range(lookup.result.aliases)
       /\ (lookup.calls[1].outcome.ok /\ AliasMatchOfLast = <<>>)
          => /\ Len(lookup.calls) = 2
             /\ (lookup.calls[2].outcome.ok
                 /\ scroll_by_id(collection, Upper(lookup.vuln_id)) # <<>>)
                => (lookup.result # None /\ lookup.result.id = Upper(lookup.vuln_id))
             /\ (~lookup.calls[2].outcome.ok
                 \/ scroll_by_id(collection, Upper(lookup.vuln_id)) = <<>>)
                => lookup.result = None

\* one record carries the identifier as an alias and another as its id: the
\* record of the alias is returned and the id is not looked up
C23_Witness ==
    /\ LookupIssued
    /\ lookup.vuln_id = id_2
    /\ scroll_by_aliases(collection, id_2) # <<>>
    /\ scroll_by_id(collection, id_2) # <<>>
    /\ Len(lookup.calls) = 1
    /\ lookup.result # None
    /\ lookup.result.id = id_1

\* no alias matches and the id, upper-cased, does
C23_WitnessById ==
    /\ LookupIssued
    /\ lookup.vuln_id = id_2_lower
    /\ Len(lookup.calls) = 2
    /\ lookup.calls[1].outcome.ok
    /\ lookup.result # None
    /\ lookup.result.id = id_2

(***************************************************************************)
(* CLAIMS ABOUT EMBEDDINGS                                                 *)
(***************************************************************************)
EmbeddingDone == embedded # NoEmbedding

\* C19: every vector an embedding operation returns has exactly the declared
\* dimension of its provider and no NaN or infinite component: each such
\* component of the backend's answer is 0.0 in the vector returned; a vector
\* of the wrong length is a fatal error for the call.
C19_EmbeddingValidated ==
    EmbeddingDone
    => /\ embedded.outcome = "returned"
          => /\ embedded.vector.length = embedded.declared
             /\ \A i \in Sampled :
                  /\ embedded.vector.at[i] \notin {"nan", "inf", "-inf"}
                  /\ embedded.answer.vector.at[i] \in {"nan", "inf", "-inf"}
                     => embedded.vector.at[i] = "0.0"
       /\ (embedded.answer.ok /\ embedded.answer.vector.length # embedded.declared)
          => embedded.outcome = "raised"

\* OSVRAGTool.generate_embedding does what C19 asks
C19_GenerateEmbeddingValidated ==
    (EmbeddingDone /\ embedded.op = "OSVRAGTool.generate_embedding")
    => /\ embedded.outcome = "returned"
          => /\ embedded.vector.length = embedded.declared
             /\ \A i \in Sampled :
                  /\ embedded.vector.at[i] \notin {"nan", "inf", "-inf"}
                  /\ embedded.answer.vector.at[i] \in {"nan", "inf", "-inf"}
                     => embedded.vector.at[i] = "0.0"
       /\ (embedded.answer.ok /\ embedded.answer.vector.length # embedded.declared)
          => embedded.outcome = "raised"

\* EmbeddingProvider.embed_text handed a NaN of the backend on
C19_NanReturned ==
    /\ EmbeddingDone
    /\ embedded.op = "EmbeddingProvider.embed_text"
    /\ embedded.outcome = "returned"
    /\ embedded.vector.length = embedded.declared
    /\ embedded.vector.at[1] = "nan"

\* EmbeddingProvider.embed_text handed on a vector of another length than the
\* provider declares
C19_WrongLengthReturned ==
    /\ EmbeddingDone
    /\ embedded.op = "EmbeddingProvider.embed_text"
    /\ embedded.outcome = "returned"
    /\ embedded.declared = 1024
    /\ embedded.vector.length = 384


(***************************************************************************)
(* CLAIMS ABOUT THE SCAN FALLBACK                                          *)
(***************************************************************************)
\* the last search was answered by the scan fallback
ScanAnswered ==
    /\ SearchDone
    /\ lastSearch.api = "rag"
    /\ lastSearch.outcome = "returned"
    /\ CallsOf("scroll") # <<>>
    /\ CallsOf("scroll")[1].outcome.ok

\* the distinct tokens of the query, lower-cased
QueryTokens == SplitWords(Lower(lastSearch.query))

\* the query tokens that are words of the content of the result
TokensInContent(result) == QueryTokens \cap SplitWords(Lower(result.content))

TokenInPackageName(result) ==
    \E k \in DOMAIN result.affected_packages :
        \E t \in QueryTokens : IsSubstring(t, Lower(result.affected_packages[k].package.name))

TokenInEcosystem(result) == \E t \in QueryTokens : IsSubstring(t, Lower(result.ecosystem))

\* C21: in the scan fallback the relevance score of a candidate is
\* 0.5 * (distinct query tokens present in the content / distinct query
\* tokens) + 0.3 if a query token is a substring of an affected-package name
\* + 0.2 if a query token appears in the ecosystem tag, and lies in [0,1].
C21_FallbackScoreFormula ==
    ScanAnswered
    => \A k \in DOMAIN lastSearch.results :
         /\ 10 * Cardinality(QueryTokens) * lastSearch.results[k].similarity_score
            = 5 * Grid * Cardinality(TokensInContent(lastSearch.results[k]))
              + (IF TokenInPackageName(lastSearch.results[k])
                 THEN 3 * Grid * Cardinality(QueryTokens) ELSE 0)
              + (IF TokenInEcosystem(lastSearch.results[k])
                 THEN 2 * Grid * Cardinality(QueryTokens) ELSE 0)
         /\ 0 <= lastSearch.results[k].similarity_score
         /\ lastSearch.results[k].similarity_score <= Grid

\* a result scored on its content and its ecosystem tag (0.25 + 0.2) before
\* one scored on a package name alone (0.3)
C21_Witness ==
    /\ ScanAnswered
    /\ Cardinality(QueryTokens) = 2
    /\ Len(lastSearch.results) >= 2
    /\ Cardinality(TokensInContent(lastSearch.results[1])) = 1
    /\ TokenInEcosystem(lastSearch.results[1])
    /\ 100 * lastSearch.results[1].similarity_score = 45 * Grid
    /\ TokenInPackageName(lastSearch.results[2])
    /\ 10 * lastSearch.results[2].similarity_score = 3 * Grid


\* the points the scan of the last search read
ScannedOfLast == qdrant_scroll(collection, Min(lastSearch.limit * ScrollFactor, ScrollCap))

\* the scanned points with a relevance score above 0
PositiveScanned ==
    {k \in DOMAIN ScannedOfLast : fallback_score(QueryTokens, ScannedOfLast[k].payload) > 0}

C22_WitnessNoOverlap ==
    /\ ScanAnswered
    /\ PositiveScanned = {}
    /\ Len(lastSearch.results) = lastSearch.limit

\* more scanned documents score above 0 than the limit admits: none of score 0
\* is returned
C22_WitnessCrowdedOut ==
    /\ ScanAnswered
    /\ lastSearch.limit = 1
    /\ Cardinality(PositiveScanned) >= 2
    /\ Len(lastSearch.results) = 1
    /\ lastSearch.results[1].similarity_score > 0


(***************************************************************************)
(* CLAIMS ABOUT THE EXTRACTION OF RISK FACTORS                             *)
(***************************************************************************)
RecordScored == extracted # NoExtraction /\ extracted.op = "score_vulnerability"

EntriesOfType(severity_data, type) ==
    SelectSeq(severity_data, LAMBDA sev : sev.type = type)

\* the entry the preference picks: the first CVSS_V3 entry, and the first
\* CVSS_V2 entry when there is no CVSS_V3 entry; its score, 0 when it does not
\* parse
PreferredCvss(severity_data) ==
    IF EntriesOfType(severity_data, "CVSS_V3") # <<>>
    THEN (IF EntriesOfType(severity_data, "CVSS_V3")[1].parses
          THEN EntriesOfType(severity_data, "CVSS_V3")[1].tenths ELSE 0)
    ELSE IF EntriesOfType(severity_data, "CVSS_V2") # <<>>
    THEN (IF EntriesOfType(severity_data, "CVSS_V2")[1].parses
          THEN EntriesOfType(severity_data, "CVSS_V2")[1].tenths ELSE 0)
    ELSE 0

\* the same with an entry that does not parse passed over as if it were not
\* in the list
PreferredParsedCvss(severity_data) ==
    PreferredCvss(SelectSeq(severity_data, LAMBDA sev : sev.parses))

\* C24: the cvss score is taken from the first CVSS-typed severity entry, a
\* CVSS_V3 entry being preferred to a CVSS_V2 entry whatever their order in
\* the list; a score that does not parse counts as absent (0.0) and nothing is
\* raised.
C24_CvssV3Preferred ==
    RecordScored
    => extracted.factors.cvss_score
       \in {PreferredCvss(extracted.vuln_data.severity),
            PreferredParsedCvss(extracted.vuln_data.severity)}

\* the code's order: the first entry of either CVSS type whose score parses
C24_FirstParsedCvssEntry ==
    RecordScored
    => extracted.factors.cvss_score
       = PreferredCvss(SelectSeq(
             [k \in DOMAIN extracted.vuln_data.severity |->
                 [extracted.vuln_data.severity[k] EXCEPT
                     !.type = IF @ = "CVSS_V2" THEN "CVSS_V3" ELSE @]],
             LAMBDA sev : sev.parses))

\* a CVSS_V2 entry before a CVSS_V3 entry: the CVSS_V2 score is taken
C24_V2TakenBeforeV3 ==
    /\ RecordScored
    /\ extracted.vuln_data.severity
       = <<Severity("CVSS_V2", TRUE, 50), Severity("CVSS_V3", TRUE, 98)>>
    /\ extracted.factors.cvss_score = 50


Scored == extracted # NoExtraction

\* C25: a record with a "fixed" event in some range of some affected package
\* is reported with a patch available; the patch factor contributes 0 to the
\* score when a patch is available and its weight 0.03 when none is.
C25_PatchFactor ==
    /\ (RecordScored /\ has_fixed_event(extracted.vuln_data.affected_packages))
       => extracted.factors.patch_available
    /\ Scored
       => /\ extracted.factors.patch_available
             => extracted.risk_score.patch_contribution = 0
          /\ ~extracted.factors.patch_available
             => /\ extracted.risk_score.patch_contribution = W_patch * Unit
                /\ 100 * extracted.risk_score.patch_contribution = 3 * ScoreOne

\* a record with a fixed event, scored
C25_Witness ==
    /\ RecordScored
    /\ has_fixed_event(extracted.vuln_data.affected_packages)
    /\ extracted.factors.patch_available
    /\ extracted.risk_score.patch_contribution = 0

\* factors without a patch, scored
C25_WitnessNoPatch ==
    /\ Scored
    /\ ~extracted.factors.patch_available
    /\ extracted.risk_score.patch_contribution = W_patch * Unit

\* C30: whatever the record and the asset info, the extraction yields
\* patch_available = true and score_vulnerability returns patch_contribution
\* = 0.
C30_PatchAlwaysAvailable ==
    RecordScored
    => /\ extracted.factors.patch_available
       /\ extracted.risk_score.patch_contribution = 0

\* a record with affected packages and no fixed event
C30_Witness ==
    /\ RecordScored
    /\ extracted.vuln_data.affected_packages = Unpatched
    /\ extracted.asset_info # Absent
    /\ extracted.factors.patch_available
    /\ extracted.risk_score.patch_contribution = 0

\* a record with no affected package at all
C30_WitnessNoPackages ==
    /\ RecordScored
    /\ extracted.vuln_data.affected_packages = <<>>
    /\ extracted.risk_score.patch_contribution = 0

(***************************************************************************)
(* CLAIMS ABOUT THE AGE FACTOR                                             *)
(***************************************************************************)
\* the age contribution of the factors of the last call with the age changed
AgeContributionAt(days) ==
    calculate_risk_score([rf EXCEPT !.days_since_published = days]).time_contribution

\* C26: the age factor is min(days/365, 1) * 0.5: for days >= 0 the age
\* contribution is non-decreasing in days, constant from 365 days on, and at
\* most half of the age weight (0.5 * 0.02 = 0.01).
C26_AgeContribution ==
    rs # NoScore
    => /\ 2 * 365 * rs.time_contribution
          = W_time * Unit * Min(rf.days_since_published, 365)
       /\ \A days \in DaysValues :
             days <= rf.days_since_published
             => AgeContributionAt(days) <= rs.time_contribution
       /\ \A days \in DaysValues :
             (days >= 365 /\ rf.days_since_published >= 365)
             => AgeContributionAt(days) = rs.time_contribution
       /\ 2 * rs.time_contribution <= W_time * Unit
       /\ 100 * rs.time_contribution <= ScoreOne

\* a record of ten years: the contribution of one year, half of the weight
C26_Witness ==
    /\ rs # NoScore
    /\ rf.days_since_published = MaxDays
    /\ rs.time_contribution = AgeContributionAt(365)
    /\ 2 * rs.time_contribution = W_time * Unit

\* a record of ten days: more than a new one, less than one of a year
C26_WitnessYoung ==
    /\ rs # NoScore
    /\ rf.days_since_published = 10
    /\ AgeContributionAt(0) < rs.time_contribution
    /\ rs.time_contribution < AgeContributionAt(365)


(***************************************************************************)
(* CLAIMS ABOUT THE EMBEDDING PROVIDER                                     *)
(***************************************************************************)
\* thread t has run the automatic selection in its present or last call
AutoSelectionDone(t) ==
    threads[t].model_name = "auto" /\ threads[t].selection # NoSelection

\* C27: automatic selection tries the hosted provider, then the
\* sentence-transformers family, then the transformers family; a candidate
\* that fails is passed over for the next, and construction fails, with the
\* no-backend error, only when every candidate has failed.
C27_NextCandidateOnFailure ==
    \A t \in Threads :
        AutoSelectionDone(t)
        => threads[t].selection
           = _auto_select_model_next_on_failure(flags, threads[t].world)

\* what holds of the selection: the hosted provider is chosen exactly when the
\* key is set and the live call answers; otherwise the first installed local
\* family is the only one tried
C27_FirstInstalledFamilyOnly ==
    \A t \in Threads :
        AutoSelectionDone(t)
        => /\ (threads[t].selection = Selected("openai"))
              <=> (flags.OPENAI_KEY /\ threads[t].world.openai_answers)
           /\ (threads[t].selection = Selected("bge-large-en-v1.5"))
              <=> /\ ~(flags.OPENAI_KEY /\ threads[t].world.openai_answers)
                  /\ flags.SENTENCE_TRANSFORMERS_AVAILABLE
                  /\ threads[t].world.st_loads
           /\ (threads[t].selection = Selected("BAAI/bge-large-en-v1.5"))
              <=> /\ ~(flags.OPENAI_KEY /\ threads[t].world.openai_answers)
                  /\ ~flags.SENTENCE_TRANSFORMERS_AVAILABLE
                  /\ flags.TRANSFORMERS_AVAILABLE
                  /\ threads[t].world.tf_loads
           /\ (threads[t].selection
                  = Failed("RuntimeError: No embedding models available"))
              <=> /\ ~(flags.OPENAI_KEY /\ threads[t].world.openai_answers)
                  /\ ~flags.SENTENCE_TRANSFORMERS_AVAILABLE
                  /\ ~flags.TRANSFORMERS_AVAILABLE

\* the sentence-transformers model does not load, the transformers model
\* would: construction fails with the loading error
C27_LoadFailureNotSkipped ==
    \E t \in Threads :
        /\ AutoSelectionDone(t)
        /\ flags.SENTENCE_TRANSFORMERS_AVAILABLE /\ ~threads[t].world.st_loads
        /\ flags.TRANSFORMERS_AVAILABLE /\ threads[t].world.tf_loads
        /\ threads[t].selection = Failed("model load")

\* the hosted provider's live call fails and the next candidate is taken
C27_HostedProbeFailedNextTaken ==
    \E t \in Threads :
        /\ AutoSelectionDone(t)
        /\ flags.OPENAI_KEY /\ ~threads[t].world.openai_answers
        /\ threads[t].selection = Selected("bge-large-en-v1.5")

HasReturned(t) == threads[t].result # NoSelection /\ threads[t].result.outcome = "returned"

\* C28: whatever the order and interleaving of get_embedding_provider calls,
\* at most one selection runs to completion and every call returns the same
\* provider instance, with the same backend, whatever model name it passed.
C28_OneProviderForAllCalls ==
    /\ instances <= 1
    /\ \A t1 \in Threads, t2 \in Threads :
          (HasReturned(t1) /\ HasReturned(t2))
          => threads[t1].result.provider = threads[t2].result.provider

\* what holds: a call returns a provider that was constructed and stored, and
\* no more providers are constructed than there are threads
C28_ReturnedProviderWasStored ==
    /\ instances <= NumThreads
    /\ _embedding_provider.object \in 0..instances
    /\ \A t \in Threads :
          HasReturned(t) => threads[t].result.provider.object \in 1..instances

\* two calls of two threads have returned two providers of different backends
C28_TwoProvidersReturned ==
    /\ instances = 2
    /\ HasReturned(1) /\ HasReturned(2)
    /\ threads[1].result.provider.object # threads[2].result.provider.object
    /\ threads[1].result.provider.model_name # threads[2].result.provider.model_name

\* a later call with another model name is given the provider already stored
C28_LaterModelNameIgnored ==
    \E t \in Threads :
        /\ HasReturned(t)
        /\ threads[t].pc = "idle"
        /\ threads[t].model_name = "bge-m3"
        /\ threads[t].selection = NoSelection
        /\ threads[t].result.provider.model_name = "bge-large-en-v1.5"


(***************************************************************************)
(* CLAIMS ABOUT THE FUSION OF TWO RESULT LISTS                             *)
(***************************************************************************)
Combined == fused # NoFusion

\* the ids of a result list and the scores the list gives under an id
IdsOf(results) == {results[k].id : k \in DOMAIN results}

Bm25ScoresOf(id) ==
    {fused.bm25_results[k].bm25_score :
        k \in {j \in DOMAIN fused.bm25_results : fused.bm25_results[j].id = id}}

VectorScoresOf(id) ==
    {fused.vector_results[k].vector_score :
        k \in {j \in DOMAIN fused.vector_results : fused.vector_results[j].id = id}}

EntriesOf(id) ==
    {k \in DOMAIN fused.combined_results : fused.combined_results[k].id = id}

\* C29: the fused list holds each document id at most once; a document of both
\* sources is one entry that carries its bm25_score and its vector_score; and
\* every document with a non-empty id of either source is in the fused list.
C29_EachIdOnceWithBothScores ==
    Combined
    => /\ \A id \in IdsOf(fused.combined_results) : Cardinality(EntriesOf(id)) = 1
       /\ \A id \in (IdsOf(fused.bm25_results) \cap IdsOf(fused.vector_results)) \ {<<>>} :
            /\ Cardinality(EntriesOf(id)) = 1
            /\ \A k \in EntriesOf(id) :
                 /\ fused.combined_results[k].bm25_score \in Bm25ScoresOf(id)
                 /\ fused.combined_results[k].vector_score \in VectorScoresOf(id)
       /\ (IdsOf(fused.bm25_results) \cup IdsOf(fused.vector_results)) \ {<<>>}
          \subseteq IdsOf(fused.combined_results)
       /\ IdsOf(fused.combined_results)
          \subseteq IdsOf(fused.bm25_results) \cup IdsOf(fused.vector_results)

\* a document of both sources beside one of the keyword results only
C29_Witness ==
    /\ Combined
    /\ IdsOf(fused.bm25_results) = {id_1, id_2}
    /\ IdsOf(fused.vector_results) = {id_1}
    /\ Len(fused.combined_results) = 2
    /\ \E k \in EntriesOf(id_1) :
         /\ fused.combined_results[k].bm25_score > 0
         /\ fused.combined_results[k].vector_score > 0

\* the vector source returns the same document twice and the keyword source
\* returns it as well: one entry
C29_WitnessRepeated ==
    /\ Combined
    /\ Len(fused.vector_results) = 2
    /\ IdsOf(fused.vector_results) = {id_1}
    /\ IdsOf(fused.bm25_results) = {id_1}
    /\ Len(fused.combined_results) = 1

\* a keyword hit without an id is left out
C29_WitnessNoId ==
    /\ Combined
    /\ IdsOf(fused.bm25_results) = {<<>>}
    /\ fused.vector_results = <<>>
    /\ fused.combined_results = <<>>

====
